---- MODULE Spec2Model ----
(***************************************************************************)
(* Model of the session lifecycle manager (WhatsAppService), of the        *)
(* session routes in front of it, of the durable session table behind it   *)
(* (DatabaseService), of the webhook delivery subsystem (WebhookService),  *)
(* of the handling of incoming messages, of the session lists and of the   *)
(* graceful shutdown of the process.                                       *)
(*                                                                         *)
(* Every async function is a process whose positions are its await points: *)
(* an action runs one synchronous segment, from the point where the        *)
(* awaited operation completes up to the next await.  A database operation *)
(* takes effect in the segment that resumes from its await.                *)
(***************************************************************************)
EXTENDS Integers, Sequences, FiniteSets, TLC

\* ------------------------------------------------------------------ bounds
MaxCalls  == 2       \* calls of the session API (create, delete, pairing code, restart)
MaxEvents == 2       \* connection.update events the ProtocolClient emits

\* every connection is opened by a create request or after a close update
SockIds == 1..(MaxCalls + MaxEvents)

MaxOccs   == 1       \* event occurrences handed to sendWebhook (with two, their chains interleave)
MaxSlots  == 2       \* deliverWebhook chains in all: of events and of manual retries
MaxManual == 1       \* retryFailedDeliveries calls
MaxPayload == 2      \* characters of a payload handed to createSignature

Ids    == {"s1"}                \* session ids used by the API calls
AllIds == {"s1", "s2", "s3"}    \* session ids of the durable table
Users  == {"u1", "u2"}
NoSock == 0

Statuses == {"CONNECTING", "QR_REQUIRED", "PAIRING_REQUIRED", "CONNECTED",
             "DISCONNECTED", "ERROR"}
Required == {"QR_REQUIRED", "PAIRING_REQUIRED"}

\* await points of handleConnectionUpdate
HandlerPcs == {"qrEncode", "qrDb", "closeDb", "logoutDb", "openDb"}
\* await points of initializeWhatsAppConnection run from the reconnect timer
InitPcs == {"auth", "errDb"}
\* connection.update payloads of the ProtocolClient
UpdateKinds == {"qr", "open", "close", "logout"}

\* strings are sequences of characters.  The phone number of the account, and
\* the identities (socket.user.id) a connection reports when it opens: the
\* phone number with a device part and a server part, or the phone number alone
Phone == <<"1", "5">>
Identities == {Phone \o <<":", "2", "@", "s">>, Phone \o <<":", "1", "0", "@", "s">>, Phone}

\* webhooks registered through POST /webhooks: owner, subscribed events and
\* retry bound are fixed at creation; w4 has been deactivated by its owner
Webhooks == {"w1", "w2", "w3", "w4"}
WebhookOrder == <<"w1", "w2", "w3", "w4">>
WebhookConfig ==
  [w \in Webhooks |->
     CASE w = "w1" -> [userId |-> "u1", events |-> {"message.received"}, maxRetries |-> 3]
       [] w = "w2" -> [userId |-> "u2", events |-> {"*"}, maxRetries |-> 0]
       [] w = "w3" -> [userId |-> "u2", events |-> {"message.received"}, maxRetries |-> 0]
       [] w = "w4" -> [userId |-> "u1", events |-> {"message.received", "message.updated"},
                       maxRetries |-> 1]]
\* the events handleMessagesUpsert and handleMessagesUpdate hand to sendWebhook
EventTypes == {"message.received", "message.updated"}
Occs == 1..MaxSlots
\* responses of a webhook endpoint: 2xx, another status below 500, and a
\* status of 500 or above or a transport failure
Outcomes == {"2xx", "4xx", "5xx"}

VARIABLES
  sessions,    \* the live map: per id the session object and whether it is in the map
  db,          \* durable session table (prisma.session)
  sockets,     \* ProtocolClient connections made by makeWASocket
  timers,      \* pending reconnect timers (setTimeout 5000) per id
  handlers,    \* suspended handleConnectionUpdate calls per await point and id
  rinits,      \* suspended initializeWhatsAppConnection calls started by a timer
  calls,       \* calls of the session API: POST /sessions, deleteSession,
               \* requestPairingCode, restart (live: the id had a live entry
               \* when deleteSession was called)
  notif,       \* the sessionUpdate notification published by the last step, if any
  lastSend,    \* outcome of the sendMessage call made by the last step, if any
  evCount,     \* number of events emitted so far
  webhooks,    \* prisma.webhook: the columns delivery changes
  deliveries,  \* prisma.webhookDelivery: per webhook its records in creation order
  fanouts,     \* sendWebhook calls, one per event occurrence
  tasks,       \* deliverWebhook calls per webhook and occurrence
  wtimers,     \* pending retry timers
  retryQueue,  \* WebhookService.retryQueue: webhook id -> timer
  posts,       \* responses of the HTTP attempts per webhook and occurrence
  delays,      \* delays of the retries scheduled per webhook and occurrence
  manual,      \* the retryFailedDeliveries call under way, and the calls made
  stale,       \* retry timers set before the last cleanup() or shutdown() and
               \* pending after its synchronous part
  test,        \* the testWebhook call under way or returned last
  down,        \* position of the SIGTERM/SIGINT handler
  sig,         \* a signed payload on its way to verifyWebhookSignature
  emitted,     \* per session the kind of the update its connections emitted
               \* last, where the specification of the order of updates records it
  listing,     \* the answer of the last GET /sessions or GET /dashboard/sessions
  classified   \* the message handed to getMessageType last and the type returned

svars == <<sessions, db, sockets, timers, handlers, rinits, calls,
           notif, lastSend, evCount>>
ovars == <<manual, stale, test, down, sig, emitted, listing, classified>>
wvars == <<webhooks, deliveries, fanouts, tasks, wtimers, retryQueue, posts, delays,
           ovars>>
vars == <<svars, wvars>>

\* ------------------------------------------------------------ initial state
NoSession == [inMap |-> FALSE, status |-> "NONE", socket |-> NoSock, qrCode |-> FALSE,
              pairingCode |-> FALSE, phoneNumber |-> <<>>]
NoRecord  == [exists |-> FALSE, userId |-> "none", status |-> "NONE",
              isActive |-> FALSE, qrCode |-> FALSE, pairingCode |-> FALSE]
NoSocket  == [sid |-> "none", state |-> "none", attached |-> FALSE]
IdleCall  == [op |-> "none", id |-> "none", pairing |-> FALSE, live |-> FALSE,
              pc |-> "idle", result |-> "none"]
NoNotif   == [id |-> "none", status |-> "NONE"]
NoSend == [id |-> "none", status |-> "NONE", socket |-> NoSock,
           forwardedTo |-> NoSock, result |-> "none"]

NoFanout == [pc |-> "idle", sid |-> "none", event |-> "none", owner |-> "none",
             active |-> {}, queue |-> <<>>]
NoTask == [pc |-> "none", src |-> "none", rec |-> 0, outcome |-> "none", read |-> 0,
           found |-> 0]

NoManual == [pc |-> "idle", w |-> "none", queue |-> <<>>, snap |-> 0, retried |-> 0,
             failed |-> FALSE, made |-> 0]
NoTest == [pc |-> "idle", id |-> "none", by |-> "none", outcome |-> "none",
           attempts |-> 0, result |-> FALSE]
NoSig == [pc |-> "idle", payload |-> <<>>, secret |-> 0, signature |-> <<>>,
          tampered |-> "none", verdict |-> "none"]

NoListing == [route |-> "none", user |-> "none", entries |-> <<>>]
NoClassified == [pc |-> "idle", message |-> "none", type |-> "none"]

\* the tables and calls of the webhook subsystem, with the webhooks of the
\* set active still active and the others deactivated by their owners
WebhookInitWith(active) ==
  /\ manual = NoManual
  /\ stale = {}
  /\ test = NoTest
  /\ down = "running"
  /\ sig = NoSig
  /\ emitted = [i \in Ids |-> "none"]
  /\ listing = NoListing
  /\ classified = NoClassified
  /\ webhooks = [w \in Webhooks |-> [isActive |-> w \in active, retries |-> 0]]
  /\ deliveries = [w \in Webhooks |-> <<>>]
  /\ fanouts = [o \in Occs |-> NoFanout]
  /\ tasks = [w \in Webhooks |-> [o \in Occs |-> NoTask]]
  /\ wtimers = {}
  /\ retryQueue = [w \in Webhooks |-> 0]
  /\ posts = [w \in Webhooks |-> [o \in Occs |-> <<>>]]
  /\ delays = [w \in Webhooks |-> [o \in Occs |-> <<>>]]

WebhookInit == WebhookInitWith(Webhooks \ {"w4"})

\* a durable record as createSession leaves it
NewRecord(u) == [exists |-> TRUE, userId |-> u, status |-> "DEFAULT",
                 isActive |-> TRUE, qrCode |-> FALSE, pairingCode |-> FALSE]

SessionInitWith(d) ==
  /\ sessions = [i \in Ids |-> NoSession]
  /\ db = d
  /\ sockets = [k \in SockIds |-> NoSocket]
  /\ timers = [i \in Ids |-> 0]
  /\ handlers = [p \in HandlerPcs |-> [i \in Ids |-> 0]]
  /\ rinits = [p \in InitPcs |-> [i \in Ids |-> 0]]
  /\ calls = [r \in 1..MaxCalls |-> IdleCall]
  /\ notif = NoNotif
  /\ lastSend = NoSend
  /\ evCount = 0

Init == SessionInitWith([i \in AllIds |-> NoRecord]) /\ WebhookInit

\* ------------------------------------------------------------------ helpers
Inc(b, p, i) == [b EXCEPT ![p][i] = @ + 1]
Dec(b, p, i) == [b EXCEPT ![p][i] = @ - 1]

\* DatabaseService.createSession: sessionId is the table's unique key
DbCreateSucceeds(d, i) == ~d[i].exists

DbCreateSession(d, i, u) == [d EXCEPT ![i] = NewRecord(u)]

\* DatabaseService.deleteSession: an update of the record keyed by sessionId;
\* the update of a record that does not exist is rejected
DbDeleteSucceeds(d, i) == d[i].exists

DbDeleteSession(d, i) == [d EXCEPT ![i].isActive = FALSE]

\* WhatsAppService.updateSessionInDatabase: the write is best effort (a failure
\* is logged); qr is "set", "clear" or "keep" for the qrCode column
UpdateSessionInDatabase(d, i, st, qr, ok) ==
  IF ok /\ d[i].exists
  THEN [d EXCEPT ![i].status = st,
                 ![i].qrCode = IF qr = "set" THEN TRUE
                               ELSE IF qr = "clear" THEN FALSE ELSE @]
  ELSE d

\* WhatsAppService.emitSessionUpdate: publishes the status the live entry has now
EmitSessionUpdate(ss, i) ==
  IF ss[i].inMap THEN [id |-> i, status |-> ss[i].status] ELSE NoNotif

\* variant of StatusOnConnection in which a recoverable close leaves the session
\* DISCONNECTED: C6's amended statement does not survive it
StatusOnConnection_CloseDisconnects(kind) ==
  CASE kind = "close"  -> "DISCONNECTED"
    [] kind = "logout" -> "DISCONNECTED"
    [] kind = "open"   -> "CONNECTED"

\* handleConnectionUpdate, connection part: the status an update sets at once
StatusOnConnection(kind) ==
  CASE kind = "close"  -> "CONNECTING"
    [] kind = "logout" -> "DISCONNECTED"
    [] kind = "open"   -> "CONNECTED"

\* the await point the handler of an update of this kind reaches first
FirstAwait(kind) ==
  CASE kind = "qr"     -> "qrEncode"
    [] kind = "close"  -> "closeDb"
    [] kind = "logout" -> "logoutDb"
    [] kind = "open"   -> "openDb"

\* String.prototype.split(sep)[0]: the characters before the first sep
RECURSIVE SplitHead(_, _)
SplitHead(str, sep) ==
  IF str = <<>> \/ Head(str) = sep THEN <<>>
  ELSE <<Head(str)>> \o SplitHead(Tail(str), sep)

\* variant that stores the identity as it is: C19 does not survive it
PhoneOfIdentity_Whole(user) == user

\* the phone number an open update stores: user.id.split(':')[0]
PhoneOfIdentity(user) == SplitHead(user, ":")

\* handleConnectionUpdate from its entry to its first await: the effect on the
\* session object (nothing when the id is not in the live map); user is the
\* identity of the connection, read by an open update
HandlerStartSessions(ss, i, kind, user) ==
  IF ~ss[i].inMap \/ kind = "qr" THEN ss
  ELSE IF kind = "open"
  THEN [ss EXCEPT ![i].status = StatusOnConnection(kind),
                  ![i].qrCode = FALSE,
                  ![i].pairingCode = FALSE,
                  ![i].phoneNumber = PhoneOfIdentity(user)]
  ELSE [ss EXCEPT ![i].status = StatusOnConnection(kind)]

HandlerStartHandlers(h, ss, i, kind) ==
  IF ~ss[i].inMap THEN h ELSE Inc(h, FirstAwait(kind), i)

\* variant of sendMessage's guard without the test of the status: C9 does not
\* survive it
SendMessageAllowed_AnyStatus(s) == s.inMap /\ s.socket # NoSock

\* sendMessage's guard
SendMessageAllowed(s) == s.inMap /\ s.socket # NoSock /\ s.status = "CONNECTED"

FreeSocket == CHOOSE k \in SockIds :
                 /\ sockets[k].state = "none"
                 /\ \A j \in SockIds : sockets[j].state = "none" => k <= j

\* ------------------------------------------------------------- API calls
\* call slots are taken in order
CanStart(r) ==
  /\ calls[r].pc = "idle"
  /\ IF r = 1 THEN TRUE ELSE calls[r - 1].pc # "idle"

\* a deleteSession call for i has returned and i has no live entry (no
\* createSession racing with the delete has inserted one)
Deleted(i) ==
  /\ \E r \in 1..MaxCalls :
        calls[r].op = "delete" /\ calls[r].id = i /\ calls[r].result = "ok"
  /\ ~sessions[i].inMap

\* ------------------------------------------- POST /sessions and createSession
\* the route's dbService.getSession has completed: the request is refused if
\* the durable store has a record of the id; otherwise createSession runs up
\* to its first await, and throws if the live map has an entry of the id
RoutePostSession(r, i, p) ==
  /\ CanStart(r)
  /\ calls' = [calls EXCEPT ![r] =
        IF db[i].exists \/ sessions[i].inMap
        THEN [op |-> "create", id |-> i, pairing |-> FALSE, live |-> FALSE,
              pc |-> "done", result |-> "AlreadyExists"]
        ELSE [op |-> "create", id |-> i, pairing |-> p, live |-> FALSE,
              pc |-> "dbCreate", result |-> "none"]]
  /\ notif' = NoNotif /\ lastSend' = NoSend
  /\ UNCHANGED <<sessions, db, sockets, timers, handlers, rinits, evCount, wvars>>

\* the durable create completes; on success the CONNECTING entry is inserted
\* and initializeWhatsAppConnection runs up to its first await
CreateSessionInsert(r) ==
  LET i == calls[r].id IN
  /\ calls[r].pc = "dbCreate"
  /\ IF DbCreateSucceeds(db, i)
     THEN /\ db' = DbCreateSession(db, i, "u1")
          /\ sessions' = [sessions EXCEPT ![i] =
                [inMap |-> TRUE, status |-> "CONNECTING", socket |-> NoSock,
                 qrCode |-> FALSE, pairingCode |-> FALSE, phoneNumber |-> <<>>]]
          /\ calls' = [calls EXCEPT ![r].pc = "auth"]
     ELSE /\ calls' = [calls EXCEPT ![r].pc = "done", ![r].pairing = FALSE,
                                    ![r].result = "UniqueViolation"]
          /\ UNCHANGED <<db, sessions>>
  /\ notif' = NoNotif /\ lastSend' = NoSend
  /\ UNCHANGED <<sockets, timers, handlers, rinits, evCount, wvars>>

\* initializeWhatsAppConnection after its awaits (auth state, protocol version):
\* makeWASocket opens a connection before the live entry is looked up; without
\* an entry the assignment of the socket throws, and the handlers are never
\* attached to the connection just opened
InitSockets(sk, ss, i) ==
  [sk EXCEPT ![FreeSocket] = [sid |-> i, state |-> "open", attached |-> ss[i].inMap]]

InitSessions(ss, i, pair) ==
  IF ss[i].inMap
  THEN [ss EXCEPT ![i].socket = FreeSocket,
                  ![i].status = IF pair THEN "PAIRING_REQUIRED" ELSE @]
  ELSE ss

\* variant of the catch block that leaves the status as it is: C24 does not
\* survive it
InitFailedSessions_KeepsStatus(ss, i) == ss

\* the catch block of initializeWhatsAppConnection
InitFailedSessions(ss, i) ==
  IF ss[i].inMap THEN [ss EXCEPT ![i].status = "ERROR"] ELSE ss

CreateSessionInit(r, ok, registered) ==
  LET i == calls[r].id
      pair == calls[r].pairing /\ ~registered IN
  /\ calls[r].pc = "auth"
  /\ IF ok
     THEN /\ sockets' = InitSockets(sockets, sessions, i)
          /\ sessions' = InitSessions(sessions, i, pair)
          /\ calls' = [calls EXCEPT ![r] =
                IF ~sessions[i].inMap
                THEN [@ EXCEPT !.pc = "done", !.result = "InitError", !.pairing = FALSE]
                ELSE IF pair THEN [@ EXCEPT !.pc = "pairDb", !.pairing = FALSE]
                ELSE [@ EXCEPT !.pc = "done", !.result = "ok", !.pairing = FALSE]]
     ELSE /\ sessions' = InitFailedSessions(sessions, i)
          /\ calls' = [calls EXCEPT ![r] =
                IF sessions[i].inMap THEN [@ EXCEPT !.pc = "errDb", !.pairing = FALSE]
                ELSE [@ EXCEPT !.pc = "done", !.result = "InitError", !.pairing = FALSE]]
          /\ UNCHANGED sockets
  /\ notif' = NoNotif /\ lastSend' = NoSend
  /\ UNCHANGED <<db, timers, handlers, rinits, evCount, wvars>>

CreateSessionPairDb(r, dbOk) ==
  LET i == calls[r].id IN
  /\ calls[r].pc = "pairDb"
  /\ db' = UpdateSessionInDatabase(db, i, "PAIRING_REQUIRED", "keep", dbOk)
  /\ notif' = EmitSessionUpdate(sessions, i)
  /\ calls' = [calls EXCEPT ![r].pc = "done", ![r].result = "ok"]
  /\ lastSend' = NoSend
  /\ UNCHANGED <<sessions, sockets, timers, handlers, rinits, evCount, wvars>>

CreateSessionErrDb(r, dbOk) ==
  LET i == calls[r].id IN
  /\ calls[r].pc = "errDb"
  /\ db' = UpdateSessionInDatabase(db, i, "ERROR", "keep", dbOk)
  /\ notif' = EmitSessionUpdate(sessions, i)
  /\ calls' = [calls EXCEPT ![r].pc = "done", ![r].result = "InitError"]
  /\ lastSend' = NoSend
  /\ UNCHANGED <<sessions, sockets, timers, handlers, rinits, evCount, wvars>>

\* ------------------------------------------------- connection.update events
\* the ProtocolClient emits an update on a connection whose handlers are
\* attached; the listener runs handleConnectionUpdate up to its first await
ListenerRuns(k, kind, user) ==
  LET i == sockets[k].sid IN
  /\ evCount < MaxEvents
  /\ sockets[k].state = "open"
  /\ sockets[k].attached
  /\ evCount' = evCount + 1
  /\ sockets' = IF kind \in {"close", "logout"}
                THEN [sockets EXCEPT ![k].state = "closed"] ELSE sockets
  /\ sessions' = HandlerStartSessions(sessions, i, kind, user)
  /\ handlers' = HandlerStartHandlers(handlers, sessions, i, kind)
  /\ notif' = NoNotif /\ lastSend' = NoSend
  /\ UNCHANGED <<db, timers, rinits, calls>>

EmitUpdate(k, kind, user) ==
  /\ ListenerRuns(k, kind, user)
  /\ UNCHANGED wvars

\* the same step with the kind of the update recorded
EmitUpdateInOrder(k, kind, user) ==
  /\ ListenerRuns(k, kind, user)
  /\ emitted' = [emitted EXCEPT ![sockets[k].sid] = kind]
  /\ UNCHANGED <<webhooks, deliveries, fanouts, tasks, wtimers, retryQueue, posts, delays,
                 manual, stale, test, down, sig, listing, classified>>

\* variant in which the handler puts its session object back into the live
\* map: C18 does not survive it
QrEncodedSessions_Reinserts(ss, i) ==
  [ss EXCEPT ![i].qrCode = TRUE, ![i].status = "QR_REQUIRED", ![i].inMap = TRUE]

\* the handler of a QR update resumes with the encoded image: it writes to the
\* session object it looked up on entry
QrEncodedSessions(ss, i) ==
  [ss EXCEPT ![i].qrCode = TRUE, ![i].status = "QR_REQUIRED"]

\* QRCode.toDataURL has completed (a failure is logged and ends the handler)
HandlerQrEncoded(i, ok) ==
  /\ handlers["qrEncode"][i] > 0
  /\ IF ok
     THEN /\ sessions' = QrEncodedSessions(sessions, i)
          /\ handlers' = Inc(Dec(handlers, "qrEncode", i), "qrDb", i)
     ELSE /\ handlers' = Dec(handlers, "qrEncode", i)
          /\ UNCHANGED sessions
  /\ notif' = NoNotif /\ lastSend' = NoSend
  /\ UNCHANGED <<db, sockets, timers, rinits, calls, evCount, wvars>>

\* the status a handler suspended at this await point has set and persists
PersistedStatus(pc) ==
  CASE pc = "qrDb"     -> "QR_REQUIRED"
    [] pc = "closeDb"  -> "CONNECTING"
    [] pc = "logoutDb" -> "DISCONNECTED"
    [] pc = "openDb"   -> "CONNECTED"

PersistedQr(pc) ==
  CASE pc = "qrDb"   -> "set"
    [] pc = "openDb" -> "clear"
    [] OTHER         -> "keep"

\* variant in which the handler of a logout schedules a reconnect as well:
\* C22 does not survive it
ReconnectsScheduled_AlsoLogout(pc) == IF pc \in {"closeDb", "logoutDb"} THEN 1 ELSE 0

\* variant in which every update schedules a reconnect: C37 does not survive it
ReconnectsScheduled_AnyUpdate(pc) == 1

\* reconnects scheduled when a handler resumes from this await point
ReconnectsScheduled(pc) == IF pc = "closeDb" THEN 1 ELSE 0

\* the durable write of a handler has completed: notify, and after a
\* recoverable close schedule the reconnect
HandlerPersisted(pc, i, dbOk) ==
  /\ pc \in HandlerPcs \ {"qrEncode"}
  /\ handlers[pc][i] > 0
  /\ handlers' = Dec(handlers, pc, i)
  /\ db' = UpdateSessionInDatabase(db, i, PersistedStatus(pc), PersistedQr(pc), dbOk)
  /\ notif' = EmitSessionUpdate(sessions, i)
  /\ timers' = [timers EXCEPT ![i] = @ + ReconnectsScheduled(pc)]
  /\ lastSend' = NoSend
  /\ UNCHANGED <<sessions, sockets, rinits, calls, evCount, wvars>>

\* the reconnect timer fires: initializeWhatsAppConnection(sessionId) starts
ReconnectTimerFires(i) ==
  /\ timers[i] > 0
  /\ timers' = [timers EXCEPT ![i] = @ - 1]
  /\ rinits' = Inc(rinits, "auth", i)
  /\ notif' = NoNotif /\ lastSend' = NoSend
  /\ UNCHANGED <<sessions, db, sockets, handlers, calls, evCount, wvars>>

ReconnectInit(i, ok) ==
  /\ rinits["auth"][i] > 0
  /\ IF ok
     THEN /\ sockets' = InitSockets(sockets, sessions, i)
          /\ sessions' = InitSessions(sessions, i, FALSE)
          /\ rinits' = Dec(rinits, "auth", i)
     ELSE /\ sessions' = InitFailedSessions(sessions, i)
          /\ rinits' = IF sessions[i].inMap
                       THEN Inc(Dec(rinits, "auth", i), "errDb", i)
                       ELSE Dec(rinits, "auth", i)
          /\ UNCHANGED sockets
  /\ notif' = NoNotif /\ lastSend' = NoSend
  /\ UNCHANGED <<db, timers, handlers, calls, evCount, wvars>>

ReconnectErrDb(i, dbOk) ==
  /\ rinits["errDb"][i] > 0
  /\ rinits' = Dec(rinits, "errDb", i)
  /\ db' = UpdateSessionInDatabase(db, i, "ERROR", "keep", dbOk)
  /\ notif' = EmitSessionUpdate(sessions, i)
  /\ lastSend' = NoSend
  /\ UNCHANGED <<sessions, sockets, timers, handlers, calls, evCount, wvars>>

\* --------------------------------------------------------------- deleteSession
\* socket.end() on a connection that is still open makes the ProtocolClient
\* emit a close update without a logout reason; its listener runs at once,
\* inside end(), when the client delivers the update synchronously (sync), and
\* finds no live entry any more otherwise
EndsSocket(s) ==
  s.inMap /\ s.socket # NoSock /\ sockets[s.socket].state = "open"

EndEmitsClose(s, sync) ==
  EndsSocket(s) /\ sockets[s.socket].attached /\ sync

DeleteSessionBegin(r, i, sync, op, pc) ==
  LET s == sessions[i]
      handled == EndEmitsClose(s, sync)
      afterEnd == IF handled THEN HandlerStartSessions(sessions, i, "close", <<>>)
                  ELSE sessions IN
  /\ CanStart(r)
  /\ sockets' = IF EndsSocket(s)
                THEN [sockets EXCEPT ![s.socket].state = "closed"]
                ELSE sockets
  /\ handlers' = IF handled THEN HandlerStartHandlers(handlers, sessions, i, "close")
                 ELSE handlers
  /\ sessions' = [afterEnd EXCEPT ![i].inMap = FALSE]
  /\ calls' = [calls EXCEPT ![r] = [op |-> op, id |-> i, pairing |-> FALSE,
                                    live |-> s.inMap, pc |-> pc,
                                    result |-> "none"]]
  /\ notif' = NoNotif /\ lastSend' = NoSend
  /\ UNCHANGED <<db, timers, rinits, evCount, wvars>>

\* DELETE /sessions/:id: deleteSession up to its await of the durable update
DeleteSession(r, i, sync) == DeleteSessionBegin(r, i, sync, "delete", "db")

\* the durable update of deleteSession has completed
DeleteSessionDb(r) ==
  LET i == calls[r].id IN
  /\ calls[r].pc = "db"
  /\ IF DbDeleteSucceeds(db, i)
     THEN /\ db' = DbDeleteSession(db, i)
          /\ calls' = [calls EXCEPT ![r].pc = "done", ![r].result = "ok"]
     ELSE /\ calls' = [calls EXCEPT ![r].pc = "done",
                                    ![r].result = "RecordNotFound"]
          /\ UNCHANGED db
  /\ notif' = NoNotif /\ lastSend' = NoSend
  /\ UNCHANGED <<sessions, sockets, timers, handlers, rinits, evCount, wvars>>

\* ------------------------------------------------------------------ sendMessage
SendMessage(i) ==
  LET s == sessions[i] IN
  /\ lastSend' =
       IF SendMessageAllowed(s)
       THEN [id |-> i, status |-> s.status, socket |-> s.socket,
             forwardedTo |-> s.socket, result |-> "forwarded"]
       ELSE [id |-> i, status |-> IF s.inMap THEN s.status ELSE "ABSENT",
             socket |-> IF s.inMap THEN s.socket ELSE NoSock,
             forwardedTo |-> NoSock, result |-> "NotConnected"]
  /\ notif' = NoNotif
  /\ UNCHANGED <<sessions, db, sockets, timers, handlers, rinits, calls, evCount, wvars>>

\* ---------------------------------------------------------------- specification
\* the life of the sessions: creation, the updates of their connections,
\* reconnects and deletion
LifeNext ==
  \/ \E r \in 1..MaxCalls, i \in Ids, p \in BOOLEAN : RoutePostSession(r, i, p)
  \/ \E r \in 1..MaxCalls : CreateSessionInsert(r)
  \/ \E r \in 1..MaxCalls, ok \in BOOLEAN, reg \in BOOLEAN : CreateSessionInit(r, ok, reg)
  \/ \E r \in 1..MaxCalls, dbOk \in BOOLEAN : CreateSessionPairDb(r, dbOk)
  \/ \E r \in 1..MaxCalls, dbOk \in BOOLEAN : CreateSessionErrDb(r, dbOk)
  \/ \E k \in SockIds, kind \in UpdateKinds :
        \E user \in IF kind = "open" THEN Identities ELSE {Phone} :
           EmitUpdate(k, kind, user)
  \/ \E i \in Ids, ok \in BOOLEAN : HandlerQrEncoded(i, ok)
  \/ \E pc \in HandlerPcs, i \in Ids, dbOk \in BOOLEAN : HandlerPersisted(pc, i, dbOk)
  \/ \E i \in Ids : ReconnectTimerFires(i)
  \/ \E i \in Ids, ok \in BOOLEAN : ReconnectInit(i, ok)
  \/ \E i \in Ids, dbOk \in BOOLEAN : ReconnectErrDb(i, dbOk)
  \/ \E r \in 1..MaxCalls, i \in Ids, sync \in BOOLEAN : DeleteSession(r, i, sync)
  \/ \E r \in 1..MaxCalls : DeleteSessionDb(r)

SpecLife == Init /\ [][LifeNext]_vars

\* the life of a session that is not deleted, with the order of the updates
\* of its connections recorded
OrderNext ==
  \/ \E r \in 1..MaxCalls, i \in Ids, p \in BOOLEAN : RoutePostSession(r, i, p)
  \/ \E r \in 1..MaxCalls : CreateSessionInsert(r)
  \/ \E r \in 1..MaxCalls, ok \in BOOLEAN, reg \in BOOLEAN : CreateSessionInit(r, ok, reg)
  \/ \E r \in 1..MaxCalls, dbOk \in BOOLEAN : CreateSessionPairDb(r, dbOk)
  \/ \E r \in 1..MaxCalls, dbOk \in BOOLEAN : CreateSessionErrDb(r, dbOk)
  \/ \E k \in SockIds, kind \in UpdateKinds :
        \E user \in IF kind = "open" THEN Identities ELSE {Phone} :
           EmitUpdateInOrder(k, kind, user)
  \/ \E i \in Ids, ok \in BOOLEAN : HandlerQrEncoded(i, ok)
  \/ \E pc \in HandlerPcs, i \in Ids, dbOk \in BOOLEAN : HandlerPersisted(pc, i, dbOk)
  \/ \E i \in Ids : ReconnectTimerFires(i)
  \/ \E i \in Ids, ok \in BOOLEAN : ReconnectInit(i, ok)
  \/ \E i \in Ids, dbOk \in BOOLEAN : ReconnectErrDb(i, dbOk)

SpecOrder == Init /\ [][OrderNext]_vars

Next ==
  \/ LifeNext
  \/ \E i \in Ids : SendMessage(i)

Spec == Init /\ [][Next]_vars

\* sendMessage beside the creation of the sessions, the updates of their
\* connections and their deletion, before any reconnect timer fires
SendNext ==
  \/ \E r \in 1..MaxCalls, i \in Ids, p \in BOOLEAN : RoutePostSession(r, i, p)
  \/ \E r \in 1..MaxCalls : CreateSessionInsert(r)
  \/ \E r \in 1..MaxCalls, ok \in BOOLEAN, reg \in BOOLEAN : CreateSessionInit(r, ok, reg)
  \/ \E r \in 1..MaxCalls, dbOk \in BOOLEAN : CreateSessionPairDb(r, dbOk)
  \/ \E r \in 1..MaxCalls, dbOk \in BOOLEAN : CreateSessionErrDb(r, dbOk)
  \/ \E k \in SockIds, kind \in UpdateKinds :
        \E user \in IF kind = "open" THEN Identities ELSE {Phone} :
           EmitUpdate(k, kind, user)
  \/ \E i \in Ids, ok \in BOOLEAN : HandlerQrEncoded(i, ok)
  \/ \E pc \in HandlerPcs, i \in Ids, dbOk \in BOOLEAN : HandlerPersisted(pc, i, dbOk)
  \/ \E r \in 1..MaxCalls, i \in Ids, sync \in BOOLEAN : DeleteSession(r, i, sync)
  \/ \E r \in 1..MaxCalls : DeleteSessionDb(r)
  \/ \E i \in Ids : SendMessage(i)

SpecSend == Init /\ [][SendNext]_vars

\* ------------------------------------------- deleteSession when end() throws
\* socket.end() is called outside any try block: an error it raises leaves
\* deleteSession before the removal from the live map and before the durable
\* update; whether the connection got closed before the error is the client's
\* business (closed)
DeleteSessionEndThrows(r, i, closed) ==
  LET s == sessions[i] IN
  /\ CanStart(r)
  /\ s.inMap /\ s.socket # NoSock
  /\ sockets' = IF closed THEN [sockets EXCEPT ![s.socket].state = "closed"]
                ELSE sockets
  /\ calls' = [calls EXCEPT ![r] = [op |-> "delete", id |-> i, pairing |-> FALSE,
                                    live |-> TRUE, pc |-> "done",
                                    result |-> "EndError"]]
  /\ notif' = NoNotif /\ lastSend' = NoSend
  /\ UNCHANGED <<sessions, db, timers, handlers, rinits, evCount, wvars>>

\* ---------------------------------------------------------- requestPairingCode
\* variant of the guard that asks for a live entry only: C12 does not
\* survive it
HasClient_AnyEntry(s) == s.inMap

\* the guard of requestPairingCode: a live entry whose socket is set
HasClient(s) == s.inMap /\ s.socket # NoSock

\* requestPairingCode up to its first await: without a client the call throws,
\* otherwise socket.requestPairingCode is called
RequestPairingCode(r, i) ==
  /\ CanStart(r)
  /\ calls' = [calls EXCEPT ![r] =
        IF HasClient(sessions[i])
        THEN [op |-> "pairing", id |-> i, pairing |-> FALSE, live |-> TRUE,
              pc |-> "pairCode", result |-> "none"]
        ELSE [op |-> "pairing", id |-> i, pairing |-> FALSE,
              live |-> sessions[i].inMap, pc |-> "done", result |-> "NotFound"]]
  /\ notif' = NoNotif /\ lastSend' = NoSend
  /\ UNCHANGED <<sessions, db, sockets, timers, handlers, rinits, evCount, wvars>>

\* the client has answered: a code is stored on the session object with the
\* phone number, a rejection leaves requestPairingCode at once
RequestPairingCodeAnswered(r, ok) ==
  LET i == calls[r].id IN
  /\ calls[r].pc = "pairCode"
  /\ IF ok
     THEN /\ sessions' = [sessions EXCEPT ![i].pairingCode = TRUE,
                                          ![i].phoneNumber = Phone]
          /\ calls' = [calls EXCEPT ![r].pc = "pairPersist"]
     ELSE /\ calls' = [calls EXCEPT ![r].pc = "done", ![r].live = FALSE,
                                    ![r].result = "Rejected"]
          /\ UNCHANGED sessions
  /\ notif' = NoNotif /\ lastSend' = NoSend
  /\ UNCHANGED <<db, sockets, timers, handlers, rinits, evCount, wvars>>

\* updateSessionInDatabase with the code: best effort, like every such write
PersistPairingCode(d, i, ok) ==
  IF ok /\ d[i].exists THEN [d EXCEPT ![i].pairingCode = TRUE] ELSE d

\* the durable write of the code has completed: notify and return the code
RequestPairingCodePersisted(r, dbOk) ==
  LET i == calls[r].id IN
  /\ calls[r].pc = "pairPersist"
  /\ db' = PersistPairingCode(db, i, dbOk)
  /\ notif' = EmitSessionUpdate(sessions, i)
  /\ calls' = [calls EXCEPT ![r].pc = "done", ![r].live = FALSE, ![r].result = "ok"]
  /\ lastSend' = NoSend
  /\ UNCHANGED <<sessions, sockets, timers, handlers, rinits, evCount, wvars>>

\* ------------------------------------------------ POST /sessions/:id/restart
\* the route awaits deleteSession and then createSession with the same id
RouteRestart(r, i, sync) == DeleteSessionBegin(r, i, sync, "restart", "restartDb")

\* createSession up to its await of the durable create
CreateSessionBegins(ss, i) == ~ss[i].inMap

\* deleteSession's durable update has completed; on success the route calls
\* createSession, which runs up to its await of the durable create
RestartDeleteDb(r) ==
  LET i == calls[r].id IN
  /\ calls[r].pc = "restartDb"
  /\ IF DbDeleteSucceeds(db, i)
     THEN /\ db' = DbDeleteSession(db, i)
          /\ calls' = [calls EXCEPT ![r] =
                IF CreateSessionBegins(sessions, i)
                THEN [@ EXCEPT !.pc = "dbCreate"]
                ELSE [@ EXCEPT !.pc = "done", !.result = "AlreadyExists"]]
     ELSE /\ calls' = [calls EXCEPT ![r].pc = "done",
                                    ![r].result = "RecordNotFound"]
          /\ UNCHANGED db
  /\ notif' = NoNotif /\ lastSend' = NoSend
  /\ UNCHANGED <<sessions, sockets, timers, handlers, rinits, evCount, wvars>>

\* the calls of the API of the sessions (the connections emit no update but
\* the close update of end())
ApiNext ==
  \/ \E r \in 1..MaxCalls, i \in Ids, p \in BOOLEAN : RoutePostSession(r, i, p)
  \/ \E r \in 1..MaxCalls : CreateSessionInsert(r)
  \/ \E r \in 1..MaxCalls, ok \in BOOLEAN, reg \in BOOLEAN : CreateSessionInit(r, ok, reg)
  \/ \E r \in 1..MaxCalls, dbOk \in BOOLEAN : CreateSessionPairDb(r, dbOk)
  \/ \E r \in 1..MaxCalls, dbOk \in BOOLEAN : CreateSessionErrDb(r, dbOk)
  \/ \E pc \in HandlerPcs, i \in Ids, dbOk \in BOOLEAN : HandlerPersisted(pc, i, dbOk)
  \/ \E r \in 1..MaxCalls, i \in Ids, sync \in BOOLEAN : DeleteSession(r, i, sync)
  \/ \E r \in 1..MaxCalls, i \in Ids, closed \in BOOLEAN :
        DeleteSessionEndThrows(r, i, closed)
  \/ \E r \in 1..MaxCalls : DeleteSessionDb(r)
  \/ \E r \in 1..MaxCalls, i \in Ids : RequestPairingCode(r, i)
  \/ \E r \in 1..MaxCalls, ok \in BOOLEAN : RequestPairingCodeAnswered(r, ok)
  \/ \E r \in 1..MaxCalls, dbOk \in BOOLEAN : RequestPairingCodePersisted(r, dbOk)
  \/ \E r \in 1..MaxCalls, i \in Ids, sync \in BOOLEAN : RouteRestart(r, i, sync)
  \/ \E r \in 1..MaxCalls : RestartDeleteDb(r)

SpecApi == Init /\ [][ApiNext]_vars

\* ------------------------------------- GET /sessions, GET /dashboard/sessions
Undefined == "undefined"

\* what a caller of WhatsAppService.getSession holds: the method is async, so
\* the call returns a promise, which resolves to the live entry or to undefined
GetSession(ss, i) ==
  [kind |-> "promise",
   value |-> IF i \in Ids /\ ss[i].inMap THEN [kind |-> "session", session |-> ss[i]]
             ELSE [kind |-> "undefined"]]

\* v?.status, v?.qrCode and v?.pairingCode: a promise has none of these
\* properties, and undefined has none
StatusOf(v) == IF v.kind = "session" THEN v.session.status ELSE Undefined
QrCodeOf(v) == IF v.kind = "session" THEN v.session.qrCode ELSE FALSE
PairingCodeOf(v) == IF v.kind = "session" THEN v.session.pairingCode ELSE FALSE

\* a || b for statuses
OrElse(a, b) == IF a = Undefined THEN b ELSE a

\* DatabaseService.getUserSessions: the active records of the user
GetUserSessions(d, u) == {i \in AllIds : d[i].exists /\ d[i].userId = u /\ d[i].isActive}

\* the entry GET /sessions makes of a record: the route does not await
\* getSession
ListEntry(d, ss, i) ==
  LET liveSession == GetSession(ss, i) IN
  [status |-> d[i].status,
   liveStatus |-> OrElse(StatusOf(liveSession), "DISCONNECTED"),
   qrCode |-> QrCodeOf(liveSession),
   pairingCode |-> PairingCodeOf(liveSession)]

\* the entry GET /dashboard/sessions makes of a record, in the same way
MetricsEntry(d, ss, i) ==
  LET liveSession == GetSession(ss, i) IN
  [status |-> OrElse(StatusOf(liveSession), d[i].status)]

\* GET /sessions: getUserSessions has completed and the answer is built
RouteListSessions(u) ==
  /\ listing' = [route |-> "list", user |-> u,
                 entries |-> [i \in GetUserSessions(db, u) |-> ListEntry(db, sessions, i)]]
  /\ notif' = NoNotif /\ lastSend' = NoSend
  /\ UNCHANGED <<sessions, db, sockets, timers, handlers, rinits, calls, evCount>>
  /\ UNCHANGED <<webhooks, deliveries, fanouts, tasks, wtimers, retryQueue, posts, delays,
                 manual, stale, test, down, sig, emitted, classified>>

\* GET /dashboard/sessions
RouteDashboardSessions(u) ==
  /\ listing' = [route |-> "dashboard", user |-> u,
                 entries |-> [i \in GetUserSessions(db, u) |->
                                MetricsEntry(db, sessions, i)]]
  /\ notif' = NoNotif /\ lastSend' = NoSend
  /\ UNCHANGED <<sessions, db, sockets, timers, handlers, rinits, calls, evCount>>
  /\ UNCHANGED <<webhooks, deliveries, fanouts, tasks, wtimers, retryQueue, posts, delays,
                 manual, stale, test, down, sig, emitted, classified>>

\* a session is created, its connection emits updates, and the lists are read
ListNext ==
  \/ \E r \in 1..MaxCalls, i \in Ids, p \in BOOLEAN : RoutePostSession(r, i, p)
  \/ \E r \in 1..MaxCalls : CreateSessionInsert(r)
  \/ \E r \in 1..MaxCalls, ok \in BOOLEAN, reg \in BOOLEAN : CreateSessionInit(r, ok, reg)
  \/ \E r \in 1..MaxCalls, dbOk \in BOOLEAN : CreateSessionPairDb(r, dbOk)
  \/ \E r \in 1..MaxCalls, dbOk \in BOOLEAN : CreateSessionErrDb(r, dbOk)
  \/ \E k \in SockIds, kind \in UpdateKinds :
        \E user \in IF kind = "open" THEN Identities ELSE {Phone} :
           EmitUpdate(k, kind, user)
  \/ \E i \in Ids, ok \in BOOLEAN : HandlerQrEncoded(i, ok)
  \/ \E pc \in HandlerPcs, i \in Ids, dbOk \in BOOLEAN : HandlerPersisted(pc, i, dbOk)
  \/ \E u \in Users : RouteListSessions(u)
  \/ \E u \in Users : RouteDashboardSessions(u)

SpecList == Init /\ [][ListNext]_vars

\* the live entry and its durable record: a session is created, a pairing
\* code is asked for, its connections emit updates, and every write of the
\* durable store succeeds
ShadowNext ==
  \/ \E r \in 1..MaxCalls, i \in Ids, p \in BOOLEAN : RoutePostSession(r, i, p)
  \/ \E r \in 1..MaxCalls : CreateSessionInsert(r)
  \/ \E r \in 1..MaxCalls, ok \in BOOLEAN, reg \in BOOLEAN : CreateSessionInit(r, ok, reg)
  \/ \E r \in 1..MaxCalls : CreateSessionPairDb(r, TRUE)
  \/ \E r \in 1..MaxCalls : CreateSessionErrDb(r, TRUE)
  \/ \E k \in SockIds, kind \in UpdateKinds :
        \E user \in IF kind = "open" THEN Identities ELSE {Phone} :
           EmitUpdate(k, kind, user)
  \/ \E i \in Ids, ok \in BOOLEAN : HandlerQrEncoded(i, ok)
  \/ \E pc \in HandlerPcs, i \in Ids : HandlerPersisted(pc, i, TRUE)
  \/ \E i \in Ids : ReconnectTimerFires(i)
  \/ \E i \in Ids, ok \in BOOLEAN : ReconnectInit(i, ok)
  \/ \E i \in Ids : ReconnectErrDb(i, TRUE)
  \/ \E r \in 1..MaxCalls, i \in Ids : RequestPairingCode(r, i)
  \/ \E r \in 1..MaxCalls, ok \in BOOLEAN : RequestPairingCodeAnswered(r, ok)
  \/ \E r \in 1..MaxCalls : RequestPairingCodePersisted(r, TRUE)

SpecShadow == Init /\ [][ShadowNext]_vars

\* =================================================================== webhooks
\* variant of getUserWebhooks that ignores the owner: C8 does not survive it
GetUserWebhooks_AnyOwner(wh, u) == {w \in Webhooks : wh[w].isActive}

\* DatabaseService.getUserWebhooks: the active webhooks of a user
GetUserWebhooks(wh, u) ==
  {w \in Webhooks : WebhookConfig[w].userId = u /\ wh[w].isActive}

\* sendWebhook's filter on the subscribed events
IsRelevant(w, ev) ==
  ev \in WebhookConfig[w].events \/ "*" \in WebhookConfig[w].events

RelevantWebhooks(wh, u, ev) ==
  SelectSeq(WebhookOrder, LAMBDA w : w \in GetUserWebhooks(wh, u) /\ IsRelevant(w, ev))

Pow2(n) == IF n = 0 THEN 1 ELSE IF n = 1 THEN 2 ELSE IF n = 2 THEN 4
           ELSE IF n = 3 THEN 8 ELSE IF n = 4 THEN 16 ELSE IF n = 5 THEN 32
           ELSE IF n = 6 THEN 64 ELSE IF n = 7 THEN 128 ELSE IF n = 8 THEN 256
           ELSE 512
Min(a, b) == IF a <= b THEN a ELSE b

\* calculateRetryDelay, in milliseconds: 2^retryCount seconds, at most 5 minutes
calculateRetryDelay(retryCount) == Min(Pow2(retryCount) * 1000, 5 * 60 * 1000)

\* variant of the retry test that allows one retry more: C2 does not survive it
ShouldRetry_Inclusive(retries, maxRetries) == retries <= maxRetries

\* handleWebhookError's test on the counter it read before incrementing it
ShouldRetry(retries, maxRetries) == retries < maxRetries

\* updateDeliveryStatus: the status recorded for a response that did not throw
StatusOfResponse(outcome) == IF outcome = "2xx" THEN "SUCCESS" ELSE "FAILED"

\* variant in which every answer outside 2xx throws, as without
\* validateStatus: C30 does not survive it
PostThrows_Non2xx(outcome) == outcome # "2xx"

\* axios.post with validateStatus (status < 500): the attempt throws
PostThrows(outcome) == outcome = "5xx"

\* webhookDelivery.findFirst({webhookId, event, status in sts}, createdAt desc)
FindDelivery(ds, w, ev, sts) ==
  LET S == {k \in 1..Len(ds[w]) : ds[w][k].event = ev /\ ds[w][k].status \in sts} IN
  IF S = {} THEN 0 ELSE CHOOSE k \in S : \A j \in S : j <= k

NewTask(src) == [NoTask EXCEPT !.pc = "create", !.src = src]

\* the loop of handleMessagesUpsert: when the handling of message o has ended
\* (sendWebhook has returned, or an error was caught and logged), the message
\* of the batch that waits behind it is taken up and saveMessage is called
NextMessage(f, o) ==
  IF f[o].pc = "done" /\ o + 1 \in Occs /\ f[o + 1].pc = "queued"
  THEN [f EXCEPT ![o + 1].pc = "save"]
  ELSE f

\* slots of the occurrences are taken in order
SendWebhook(o, sid, ev) ==
  /\ fanouts[o].pc = "idle"
  /\ IF o = 1 THEN TRUE ELSE fanouts[o - 1].pc # "idle"
  /\ fanouts' = [fanouts EXCEPT ![o] = [NoFanout EXCEPT !.pc = "session",
                                        !.sid = sid, !.event = ev]]
  /\ UNCHANGED <<svars, webhooks, deliveries, tasks, wtimers, retryQueue, posts, delays>>
  /\ UNCHANGED ovars

\* getSession has completed: without a durable record nothing is sent
SendWebhookSession(o) ==
  LET f == fanouts[o] IN
  /\ f.pc = "session"
  /\ fanouts' = NextMessage([fanouts EXCEPT ![o] =
        IF db[f.sid].exists THEN [f EXCEPT !.pc = "webhooks", !.owner = db[f.sid].userId]
        ELSE [f EXCEPT !.pc = "done"]], o)
  /\ UNCHANGED <<svars, webhooks, deliveries, tasks, wtimers, retryQueue, posts, delays>>
  /\ UNCHANGED ovars

\* getUserWebhooks has completed: the relevant webhooks are delivered to in
\* turn, the first deliverWebhook call starts
SendWebhookFilter(o) ==
  LET f == fanouts[o]
      q == RelevantWebhooks(webhooks, f.owner, f.event) IN
  /\ f.pc = "webhooks"
  /\ fanouts' = NextMessage([fanouts EXCEPT ![o] =
        [f EXCEPT !.pc = IF q = <<>> THEN "done" ELSE "deliver",
                  !.active = {w \in Webhooks : webhooks[w].isActive},
                  !.queue = q]], o)
  /\ tasks' = IF q = <<>> THEN tasks
              ELSE [tasks EXCEPT ![Head(q)][o] = NewTask("fanout")]
  /\ UNCHANGED <<svars, webhooks, deliveries, wtimers, retryQueue, posts, delays>>
  /\ UNCHANGED ovars

\* a deliverWebhook call returns: a call made by sendWebhook lets its loop go
\* on with the next relevant webhook
EndTaskTasks(w, o) ==
  LET q == fanouts[o].queue
      t == [tasks EXCEPT ![w][o] = NoTask] IN
  IF tasks[w][o].src = "fanout" /\ Len(q) > 1
  THEN [t EXCEPT ![q[2]][o] = NewTask("fanout")]
  ELSE t

EndTaskFanouts(w, o) ==
  IF tasks[w][o].src = "fanout"
  THEN NextMessage([fanouts EXCEPT ![o].queue = Tail(@),
                       ![o].pc = IF Len(fanouts[o].queue) > 1 THEN "deliver" ELSE "done"], o)
  ELSE fanouts

\* a deliverWebhook call made by retryFailedDeliveries returns: the delivery
\* is counted and the loop goes on
EndTaskManual(w, o) ==
  IF tasks[w][o].src = "manual"
  THEN [manual EXCEPT !.retried = @ + 1, !.queue = Tail(@),
                      !.pc = IF Len(manual.queue) > 1 THEN "next" ELSE "done"]
  ELSE manual

\* the PENDING delivery record is created and the POST is sent
DeliverCreate(w, o) ==
  /\ tasks[w][o].pc = "create"
  /\ deliveries' = [deliveries EXCEPT ![w] = Append(@,
        [event |-> fanouts[o].event, occ |-> o, status |-> "PENDING", attempts |-> 0])]
  /\ tasks' = [tasks EXCEPT ![w][o].pc = "post", ![w][o].rec = Len(deliveries[w]) + 1]
  /\ UNCHANGED <<svars, webhooks, fanouts, wtimers, retryQueue, posts, delays>>
  /\ UNCHANGED ovars

\* the endpoint answers (or the request fails)
DeliverResponse(w, o, outcome) ==
  /\ tasks[w][o].pc = "post"
  /\ posts' = [posts EXCEPT ![w][o] = Append(@, outcome)]
  /\ tasks' = [tasks EXCEPT ![w][o].outcome = outcome,
                            ![w][o].pc = IF PostThrows(outcome) THEN "findWebhook"
                                         ELSE "updStatus"]
  /\ UNCHANGED <<svars, webhooks, deliveries, fanouts, wtimers, retryQueue, delays>>
  /\ UNCHANGED ovars

\* updateDeliveryStatus has completed
DeliverUpdateStatus(w, o) ==
  LET t == tasks[w][o] IN
  /\ t.pc = "updStatus"
  /\ deliveries' = [deliveries EXCEPT ![w][t.rec].status = StatusOfResponse(t.outcome),
                                      ![w][t.rec].attempts = @ + 1]
  /\ tasks' = EndTaskTasks(w, o)
  /\ fanouts' = EndTaskFanouts(w, o)
  /\ UNCHANGED <<svars, webhooks, wtimers, retryQueue, posts, delays>>
  /\ manual' = EndTaskManual(w, o)
  /\ UNCHANGED <<stale, test, down, sig, emitted, listing, classified>>

\* handleWebhookError: webhook.findUnique has completed
ErrorFindWebhook(w, o) ==
  /\ tasks[w][o].pc = "findWebhook"
  /\ tasks' = [tasks EXCEPT ![w][o].pc = "incr", ![w][o].read = webhooks[w].retries]
  /\ UNCHANGED <<svars, webhooks, deliveries, fanouts, wtimers, retryQueue, posts, delays>>
  /\ UNCHANGED ovars

\* the increment of the counter has completed; the counter read before decides
\* between scheduling a retry and giving up
ErrorIncrement(w, o) ==
  LET t == tasks[w][o]
      retry == ShouldRetry(t.read, WebhookConfig[w].maxRetries)
      delay == calculateRetryDelay(t.read) IN
  /\ t.pc = "incr"
  /\ webhooks' = [webhooks EXCEPT ![w].retries = @ + 1]
  /\ wtimers' = IF retry THEN wtimers \cup {[w |-> w, o |-> o]} ELSE wtimers
  /\ retryQueue' = IF retry THEN [retryQueue EXCEPT ![w] = o] ELSE retryQueue
  /\ delays' = IF retry THEN [delays EXCEPT ![w][o] = Append(@, delay)] ELSE delays
  /\ tasks' = [tasks EXCEPT ![w][o].pc = IF retry THEN "findRetry" ELSE "findFail"]
  /\ UNCHANGED <<svars, deliveries, fanouts, posts>>
  /\ UNCHANGED ovars

\* webhookDelivery.findFirst has completed: with a retry scheduled it looks
\* for the latest PENDING record of the webhook and event, otherwise for the
\* latest PENDING or RETRYING one; without such a record the handler returns
ErrorFindDelivery(w, o) ==
  LET t == tasks[w][o]
      sts == IF t.pc = "findRetry" THEN {"PENDING"} ELSE {"PENDING", "RETRYING"}
      k == FindDelivery(deliveries, w, fanouts[o].event, sts) IN
  /\ t.pc \in {"findRetry", "findFail"}
  /\ IF k = 0
     THEN /\ tasks' = EndTaskTasks(w, o)
          /\ fanouts' = EndTaskFanouts(w, o)
          /\ manual' = EndTaskManual(w, o)
     ELSE /\ tasks' = [tasks EXCEPT ![w][o].found = k,
                 ![w][o].pc = IF t.pc = "findRetry" THEN "markRetry" ELSE "markFail"]
          /\ UNCHANGED <<fanouts, manual>>
  /\ UNCHANGED <<svars, webhooks, deliveries, wtimers, retryQueue, posts, delays>>
  /\ UNCHANGED <<stale, test, down, sig, emitted, listing, classified>>

\* the update of the record found has completed: RETRYING with one attempt
\* more, or FAILED
ErrorMark(w, o) ==
  LET t == tasks[w][o] IN
  /\ t.pc \in {"markRetry", "markFail"}
  /\ deliveries' = IF t.pc = "markRetry"
                   THEN [deliveries EXCEPT ![w][t.found].status = "RETRYING",
                                           ![w][t.found].attempts = @ + 1]
                   ELSE [deliveries EXCEPT ![w][t.found].status = "FAILED"]
  /\ tasks' = EndTaskTasks(w, o)
  /\ fanouts' = EndTaskFanouts(w, o)
  /\ UNCHANGED <<svars, webhooks, wtimers, retryQueue, posts, delays>>
  /\ manual' = EndTaskManual(w, o)
  /\ UNCHANGED <<stale, test, down, sig, emitted, listing, classified>>

\* a retry timer fires: deliverWebhook is called again and the webhook's entry
\* of the retry queue is dropped.  The delay (at least a second) outlasts the
\* bookkeeping writes of the handler that set the timer.
RetryTimerFires(w, o) ==
  /\ [w |-> w, o |-> o] \in wtimers
  /\ tasks[w][o].pc = "none"
  /\ wtimers' = wtimers \ {[w |-> w, o |-> o]}
  /\ retryQueue' = [retryQueue EXCEPT ![w] = 0]
  /\ tasks' = [tasks EXCEPT ![w][o] = NewTask("retry")]
  /\ UNCHANGED <<svars, webhooks, deliveries, fanouts, posts, delays>>
  /\ UNCHANGED ovars

\* the steps of sendWebhook and of the deliverWebhook chains it starts
ChainSteps ==
  \/ \E o \in Occs : SendWebhookSession(o)
  \/ \E o \in Occs : SendWebhookFilter(o)
  \/ \E w \in Webhooks, o \in Occs : DeliverCreate(w, o)
  \/ \E w \in Webhooks, o \in Occs, outcome \in Outcomes : DeliverResponse(w, o, outcome)
  \/ \E w \in Webhooks, o \in Occs : DeliverUpdateStatus(w, o)
  \/ \E w \in Webhooks, o \in Occs : ErrorFindWebhook(w, o)
  \/ \E w \in Webhooks, o \in Occs : ErrorIncrement(w, o)
  \/ \E w \in Webhooks, o \in Occs : ErrorFindDelivery(w, o)
  \/ \E w \in Webhooks, o \in Occs : ErrorMark(w, o)
  \/ \E w \in Webhooks, o \in Occs : RetryTimerFires(w, o)

\* the deliveries of the events of at most n occurrences
ChainNext(n) ==
  \/ \E o \in 1..n, sid \in AllIds, ev \in EventTypes : SendWebhook(o, sid, ev)
  \/ ChainSteps

WebhookNext == ChainNext(MaxOccs)

\* the durable table holds a session of each user and none for the third id
OwnedSessions ==
  [i \in AllIds |->
     CASE i = "s1" -> NewRecord("u1")
       [] i = "s2" -> NewRecord("u2")
       [] OTHER -> NoRecord]

WebhookSpecInit ==
  /\ SessionInitWith(OwnedSessions)
  /\ WebhookInit

\* the same sessions after the first user has deactivated w1 and kept w4
\* (maxRetries 1)
ConcurrentInit ==
  /\ SessionInitWith(OwnedSessions)
  /\ WebhookInitWith(Webhooks \ {"w1"})

SpecWebhook == WebhookSpecInit /\ [][WebhookNext]_vars

\* ------------------------------------------------------- handleMessagesUpsert
\* a connection whose handlers are attached emits messages.upsert with one
\* message: the listener runs handleMessagesUpsert up to its await of
\* saveMessage; the session id is the one the listener was registered with,
\* the live map is not consulted
MessagesUpsert(k, o) ==
  /\ sockets[k].state = "open"
  /\ sockets[k].attached
  /\ fanouts[o].pc = "idle"
  /\ IF o = 1 THEN TRUE ELSE fanouts[o - 1].pc # "idle"
  /\ fanouts' = [fanouts EXCEPT ![o] = [NoFanout EXCEPT !.pc = "save",
                                        !.sid = sockets[k].sid,
                                        !.event = "message.received"]]
  /\ UNCHANGED <<svars, webhooks, deliveries, tasks, wtimers, retryQueue, posts, delays>>
  /\ UNCHANGED ovars

\* saveMessage has completed: the message is published to the websocket
\* clients and sendWebhook is called; a failure is logged and ends the handling
\* of the message
\* variant in which the error of saveMessage leaves the handler: the loop
\* over the batch ends, C31 does not survive it
AfterSave_Throws(ok) == IF ok THEN "session" ELSE "threw"

\* where the handling of a message goes on after saveMessage: to sendWebhook,
\* or, through the catch block of the loop body, to its end
AfterSave(ok) == IF ok THEN "session" ELSE "done"

MessageSaved(o, ok) ==
  /\ fanouts[o].pc = "save"
  /\ fanouts' = NextMessage([fanouts EXCEPT ![o].pc = AfterSave(ok)], o)
  /\ UNCHANGED <<svars, webhooks, deliveries, tasks, wtimers, retryQueue, posts, delays>>
  /\ UNCHANGED ovars

\* a session is created and deleted while its connection emits updates and
\* messages, which are delivered to the webhooks of its owner
EventsNext ==
  \/ \E r \in 1..MaxCalls, i \in Ids, p \in BOOLEAN : RoutePostSession(r, i, p)
  \/ \E r \in 1..MaxCalls : CreateSessionInsert(r)
  \/ \E r \in 1..MaxCalls, ok \in BOOLEAN, reg \in BOOLEAN : CreateSessionInit(r, ok, reg)
  \/ \E r \in 1..MaxCalls, dbOk \in BOOLEAN : CreateSessionPairDb(r, dbOk)
  \/ \E r \in 1..MaxCalls, dbOk \in BOOLEAN : CreateSessionErrDb(r, dbOk)
  \/ \E k \in SockIds, kind \in UpdateKinds :
        \E user \in IF kind = "open" THEN Identities ELSE {Phone} :
           EmitUpdate(k, kind, user)
  \/ \E i \in Ids, ok \in BOOLEAN : HandlerQrEncoded(i, ok)
  \/ \E pc \in HandlerPcs, i \in Ids, dbOk \in BOOLEAN : HandlerPersisted(pc, i, dbOk)
  \/ \E i \in Ids : ReconnectTimerFires(i)
  \/ \E i \in Ids, ok \in BOOLEAN : ReconnectInit(i, ok)
  \/ \E i \in Ids, dbOk \in BOOLEAN : ReconnectErrDb(i, dbOk)
  \/ \E r \in 1..MaxCalls, i \in Ids, sync \in BOOLEAN : DeleteSession(r, i, sync)
  \/ \E r \in 1..MaxCalls : DeleteSessionDb(r)
  \/ \E k \in SockIds, o \in 1..MaxOccs : MessagesUpsert(k, o)
  \/ \E o \in Occs, ok \in BOOLEAN : MessageSaved(o, ok)
  \/ ChainSteps

SpecEvents == Init /\ [][EventsNext]_vars

\* the listener of a connection of session sid is called with a batch of n
\* messages: the first is taken up at once, the others wait for their turn in
\* the loop; the batch takes the next n slots
HandleMessagesUpsert(o, sid, n) ==
  /\ o + n - 1 \in Occs
  /\ \A p \in o..(o + n - 1) : fanouts[p].pc = "idle"
  /\ IF o = 1 THEN TRUE ELSE fanouts[o - 1].pc # "idle"
  /\ fanouts' = [p \in Occs |->
        IF p \in o..(o + n - 1)
        THEN [NoFanout EXCEPT !.pc = IF p = o THEN "save" ELSE "queued",
                              !.sid = sid, !.event = "message.received"]
        ELSE fanouts[p]]
  /\ UNCHANGED <<svars, webhooks, deliveries, tasks, wtimers, retryQueue, posts, delays>>
  /\ UNCHANGED ovars

\* no message of session sid is being handled or waits for its turn
HandlerAtRest(sid) ==
  \A p \in Occs : fanouts[p].sid = sid => fanouts[p].pc = "done"

\* batches of messages of the sessions of both users are handled and
\* delivered to the webhooks w2, w3 and w4; a connection emits its next batch
\* when the handling of its previous one has ended
BatchNext ==
  \/ \E o \in Occs, sid \in {"s1", "s2"}, n \in 1..MaxSlots :
        HandlerAtRest(sid) /\ HandleMessagesUpsert(o, sid, n)
  \/ \E o \in Occs, ok \in BOOLEAN : MessageSaved(o, ok)
  \/ ChainSteps

SpecBatch == ConcurrentInit /\ [][BatchNext]_vars

\* ------------------------------------------------------------- getMessageType
\* the fields of message.message that getMessageType looks at, in the order of
\* its tests
MessageFields == <<"conversation", "extendedTextMessage", "imageMessage",
                   "videoMessage", "audioMessage", "documentMessage",
                   "stickerMessage", "locationMessage", "contactMessage",
                   "pollCreationMessage", "reactionMessage">>
FieldNames == {MessageFields[j] : j \in 1..Len(MessageFields)}

\* a field is absent, holds the empty string (conversation is a string, the
\* other fields are objects) or holds content
FieldValues ==
  {[f \in FieldNames |-> IF f = "conversation" THEN c
                         ELSE IF f \in S THEN "set" ELSE "absent"] :
     c \in {"absent", "empty", "set"}, S \in SUBSET (FieldNames \ {"conversation"})}

\* message.message: undefined or null (given is FALSE), or an object
NullMessage == [given |-> FALSE, fields |-> [f \in FieldNames |-> "absent"]]
Messages == {NullMessage} \cup {[given |-> TRUE, fields |-> v] : v \in FieldValues}

\* message?.field as a condition: the payload is there and the field is truthy
Truthy(message, f) == message.given /\ message.fields[f] = "set"

\* variant that tests videoMessage before imageMessage: C36 does not survive it
getMessageType_VideoFirst(message) ==
  IF Truthy(message, "conversation") THEN "TEXT"
  ELSE IF Truthy(message, "extendedTextMessage") THEN "TEXT"
  ELSE IF Truthy(message, "videoMessage") THEN "VIDEO"
  ELSE IF Truthy(message, "imageMessage") THEN "IMAGE"
  ELSE IF Truthy(message, "audioMessage") THEN "AUDIO"
  ELSE IF Truthy(message, "documentMessage") THEN "DOCUMENT"
  ELSE IF Truthy(message, "stickerMessage") THEN "STICKER"
  ELSE IF Truthy(message, "locationMessage") THEN "LOCATION"
  ELSE IF Truthy(message, "contactMessage") THEN "CONTACT"
  ELSE IF Truthy(message, "pollCreationMessage") THEN "POLL"
  ELSE IF Truthy(message, "reactionMessage") THEN "REACTION"
  ELSE "TEXT"

getMessageType(message) ==
  IF Truthy(message, "conversation") THEN "TEXT"
  ELSE IF Truthy(message, "extendedTextMessage") THEN "TEXT"
  ELSE IF Truthy(message, "imageMessage") THEN "IMAGE"
  ELSE IF Truthy(message, "videoMessage") THEN "VIDEO"
  ELSE IF Truthy(message, "audioMessage") THEN "AUDIO"
  ELSE IF Truthy(message, "documentMessage") THEN "DOCUMENT"
  ELSE IF Truthy(message, "stickerMessage") THEN "STICKER"
  ELSE IF Truthy(message, "locationMessage") THEN "LOCATION"
  ELSE IF Truthy(message, "contactMessage") THEN "CONTACT"
  ELSE IF Truthy(message, "pollCreationMessage") THEN "POLL"
  ELSE IF Truthy(message, "reactionMessage") THEN "REACTION"
  ELSE "TEXT"

\* handleMessagesUpsert builds the record of a message: its messageType is
\* getMessageType(message.message)
ClassifyMessage(message) ==
  /\ classified.pc = "idle"
  /\ classified' = [pc |-> "typed", message |-> message,
                    type |-> getMessageType(message)]
  /\ UNCHANGED <<svars, webhooks, deliveries, fanouts, tasks, wtimers, retryQueue,
                 posts, delays, manual, stale, test, down, sig, emitted, listing>>

TypeNext == \E message \in Messages : ClassifyMessage(message)

SpecType == Init /\ [][TypeNext]_vars

\* ------------------------------------------------------ retryFailedDeliveries
\* the records findMany returns: the FAILED ones of the webhook
FailedDeliveries(ds, w) ==
  SelectSeq([k \in 1..Len(ds[w]) |-> k], LAMBDA k : ds[w][k].status = "FAILED")

\* the test of the loop: delivery.webhook.retries < delivery.webhook.maxRetries
ManualRetryAllowed(retries, maxRetries) == retries < maxRetries

\* a slot for one more deliverWebhook chain
FreeSlot == CHOOSE o \in Occs :
               /\ fanouts[o].pc = "idle"
               /\ \A p \in Occs : fanouts[p].pc = "idle" => o <= p

\* POST /webhooks/:id/retry: retryFailedDeliveries is called
RetryFailedDeliveries(w) ==
  /\ manual.pc \in {"idle", "done"}
  /\ manual.made < MaxManual
  /\ manual' = [NoManual EXCEPT !.pc = "find", !.w = w, !.made = manual.made + 1]
  /\ UNCHANGED <<svars, webhooks, deliveries, fanouts, tasks, wtimers, retryQueue,
                 posts, delays, stale, test, down, sig, emitted, listing, classified>>

\* findMany has completed with the FAILED records and, in each, the webhook
\* as it is now; the loop skips every record when the counter has reached
\* maxRetries
RetryFailedFound ==
  LET w == manual.w
      q == FailedDeliveries(deliveries, w)
      go == q # <<>> /\ ManualRetryAllowed(webhooks[w].retries,
                                           WebhookConfig[w].maxRetries) IN
  /\ manual.pc = "find"
  /\ manual' = [manual EXCEPT !.pc = IF go THEN "next" ELSE "done",
                              !.queue = IF go THEN q ELSE <<>>,
                              !.snap = webhooks[w].retries,
                              !.failed = q # <<>>]
  /\ UNCHANGED <<svars, webhooks, deliveries, fanouts, tasks, wtimers, retryQueue,
                 posts, delays, stale, test, down, sig, emitted, listing, classified>>

\* the loop calls deliverWebhook for the next record
RetryFailedNext ==
  LET w == manual.w
      o == FreeSlot
      rec == deliveries[w][Head(manual.queue)] IN
  /\ manual.pc = "next"
  /\ \E p \in Occs : fanouts[p].pc = "idle"
  /\ manual' = [manual EXCEPT !.pc = "deliver"]
  /\ fanouts' = [fanouts EXCEPT ![o] = [NoFanout EXCEPT !.pc = "manual",
                                        !.event = rec.event]]
  /\ tasks' = [tasks EXCEPT ![w][o] = NewTask("manual")]
  /\ UNCHANGED <<svars, webhooks, deliveries, wtimers, retryQueue, posts, delays,
                 stale, test, down, sig, emitted, listing, classified>>

ManualNext ==
  \/ ChainNext(MaxOccs)
  \/ \E w \in Webhooks : RetryFailedDeliveries(w)
  \/ RetryFailedFound
  \/ RetryFailedNext

SpecManual == WebhookSpecInit /\ [][ManualNext]_vars

\* -------------------------------------------------------------------- cleanup
\* the timers cleanup() cancels: those whose handle the retry queue holds
Cancelled(rq) == {[w |-> w, o |-> rq[w]] : w \in {v \in Webhooks : rq[v] # 0}}

\* cleanup(): the timers of the retry queue are cancelled and the queue is
\* emptied; the purge that follows removes the delivery records older than
\* 30 days, and no record made here is that old
Cleanup ==
  /\ wtimers' = wtimers \ Cancelled(retryQueue)
  /\ retryQueue' = [w \in Webhooks |-> 0]
  /\ stale' = wtimers \ Cancelled(retryQueue)
  /\ UNCHANGED <<svars, webhooks, deliveries, fanouts, tasks, posts, delays,
                 manual, test, down, sig, emitted, listing, classified>>

CleanupNext ==
  \/ ChainNext(MaxSlots)
  \/ Cleanup

SpecCleanup == WebhookSpecInit /\ [][CleanupNext]_vars

\* ------------------------------------------------------- concurrent failures
\* several events of one type of the first user's session reach w4, and their
\* chains of attempts run side by side; the endpoint is down: every POST ends
\* in a transport failure
ConcurrentNext ==
  \/ \E o \in Occs : SendWebhook(o, "s1", "message.received")
  \/ \E o \in Occs : SendWebhookSession(o)
  \/ \E o \in Occs : SendWebhookFilter(o)
  \/ \E w \in Webhooks, o \in Occs : DeliverCreate(w, o)
  \/ \E w \in Webhooks, o \in Occs : DeliverResponse(w, o, "5xx")
  \/ \E w \in Webhooks, o \in Occs : ErrorFindWebhook(w, o)
  \/ \E w \in Webhooks, o \in Occs : ErrorIncrement(w, o)
  \/ \E w \in Webhooks, o \in Occs : ErrorFindDelivery(w, o)
  \/ \E w \in Webhooks, o \in Occs : ErrorMark(w, o)
  \/ \E w \in Webhooks, o \in Occs : RetryTimerFires(w, o)

SpecConcurrent == ConcurrentInit /\ [][ConcurrentNext]_vars

\* every call that is under way goes on and every timer that is set fires
FairConcurrent == SpecConcurrent /\ WF_vars(ConcurrentNext)

\* ---------------------------------------------------------------- testWebhook
\* ids handed to testWebhook: a webhook of the table and an id without a record
TestIds == {"w1", "w0"}
\* what axios.post can end with: the responses and a transport failure
TestOutcomes == Outcomes \cup {"error"}

\* variant in which every answer below 500 counts as a success, as for the
\* POST of deliverWebhook: C16 does not survive it
TestWebhookResult_Below500(outcome) == outcome \in {"2xx", "4xx"}

\* the value testWebhook returns: axios.post is called without validateStatus,
\* so every status outside 2xx throws like a transport failure and the catch
\* block returns false; otherwise the status is tested for 200..299
TestWebhookResult(outcome) ==
  IF outcome \in {"4xx", "5xx", "error"} THEN FALSE ELSE outcome = "2xx"

\* POST /webhooks/:id/test: testWebhook is called
TestWebhook(id) ==
  /\ test.pc \in {"idle", "done"}
  /\ test' = [NoTest EXCEPT !.pc = "find", !.id = id]
  /\ UNCHANGED <<svars, webhooks, deliveries, fanouts, tasks, wtimers, retryQueue,
                 posts, delays, manual, stale, down, sig, emitted, listing, classified>>

\* webhook.findUnique has completed: without a record the error thrown is
\* caught and false is returned, otherwise the test payload is posted
TestWebhookFound ==
  /\ test.pc = "find"
  /\ test' = IF test.id \in Webhooks
             THEN [test EXCEPT !.pc = "post", !.attempts = @ + 1]
             ELSE [test EXCEPT !.pc = "done", !.result = FALSE]
  /\ UNCHANGED <<svars, webhooks, deliveries, fanouts, tasks, wtimers, retryQueue,
                 posts, delays, manual, stale, down, sig, emitted, listing, classified>>

\* the endpoint has answered, or the request has failed
TestWebhookAnswered(outcome) ==
  /\ test.pc = "post"
  /\ test' = [test EXCEPT !.pc = "done", !.outcome = outcome,
                          !.result = TestWebhookResult(outcome)]
  /\ UNCHANGED <<svars, webhooks, deliveries, fanouts, tasks, wtimers, retryQueue,
                 posts, delays, manual, stale, down, sig, emitted, listing, classified>>

TestNext ==
  \/ ChainNext(MaxOccs)
  \/ \E id \in TestIds : TestWebhook(id)
  \/ TestWebhookFound
  \/ \E outcome \in TestOutcomes : TestWebhookAnswered(outcome)

SpecTest == WebhookSpecInit /\ [][TestNext]_vars

\* ------------------------------------------------------------ webhook routes
\* DELETE /webhooks/:webhookId of user u: deleteWebhook has completed.  The
\* handler passes the id of the path to deleteWebhook, whose update selects
\* the record by that id alone; req.user is not read
DeleteWebhook(wh, w) == [wh EXCEPT ![w].isActive = FALSE]

RouteDeleteWebhook(u, w) ==
  /\ webhooks' = DeleteWebhook(webhooks, w)
  /\ UNCHANGED <<svars, deliveries, fanouts, tasks, wtimers, retryQueue, posts, delays>>
  /\ UNCHANGED ovars

\* POST /webhooks/:webhookId/test of user u: testWebhook is called with the id
\* of the path; req.user is not read
RouteTestWebhook(u, id) ==
  /\ test.pc \in {"idle", "done"}
  /\ test' = [NoTest EXCEPT !.pc = "find", !.id = id, !.by = u]
  /\ UNCHANGED <<svars, webhooks, deliveries, fanouts, tasks, wtimers, retryQueue,
                 posts, delays, manual, stale, down, sig, emitted, listing, classified>>

\* the users call the two routes with the ids of any webhooks
RoutesNext ==
  \/ \E u \in Users, w \in Webhooks : RouteDeleteWebhook(u, w)
  \/ \E u \in Users, w \in Webhooks : RouteTestWebhook(u, w)
  \/ TestWebhookFound
  \/ \E outcome \in TestOutcomes : TestWebhookAnswered(outcome)

SpecRoutes == WebhookSpecInit /\ [][RoutesNext]_vars

\* a webhook is deactivated while events are delivered to it and while its
\* failed deliveries are retried by hand
DeactivateNext ==
  \/ ChainNext(MaxOccs)
  \/ \E u \in Users, w \in Webhooks : RouteDeleteWebhook(u, w)
  \/ \E w \in Webhooks : RetryFailedDeliveries(w)
  \/ RetryFailedFound
  \/ RetryFailedNext

SpecDeactivate == WebhookSpecInit /\ [][DeactivateNext]_vars

\* ----------------------------------------------------------------- signatures
\* characters of the payloads, the secrets, and the characters a signature
\* can be altered to (hex digits, also in upper case, and other ASCII)
PayloadChars == {"a", "b"}
Secrets == {<<"x">>, <<"y">>}
HexDigits == <<"0", "1", "2", "3", "4", "5", "6", "7", "8", "9",
               "a", "b", "c", "d", "e", "f">>
SignatureChars == {HexDigits[k] : k \in 1..16} \cup {"A", "g"}

Payloads == UNION {[1..n -> PayloadChars] : n \in 0..MaxPayload}

\* the UTF-8 code of a character (all are ASCII)
CharCode(c) ==
  CASE c = "0" -> 48 [] c = "1" -> 49 [] c = "2" -> 50 [] c = "3" -> 51
    [] c = "4" -> 52 [] c = "5" -> 53 [] c = "6" -> 54 [] c = "7" -> 55
    [] c = "8" -> 56 [] c = "9" -> 57 [] c = "A" -> 65
    [] c = "a" -> 97 [] c = "b" -> 98 [] c = "c" -> 99 [] c = "d" -> 100
    [] c = "e" -> 101 [] c = "f" -> 102 [] c = "g" -> 103
    [] c = "x" -> 120 [] c = "y" -> 121

\* Buffer.from(string): the bytes of its UTF-8 encoding
BufferFrom(str) == [k \in 1..Len(str) |-> CharCode(str[k])]

\* the number a string stands for, different for different strings
RECURSIVE StringNumber(_)
StringNumber(str) ==
  IF str = <<>> THEN 0 ELSE (CharCode(Head(str)) % 8) + 1 + 8 * StringNumber(Tail(str))

\* crypto.createHmac('sha256', secret).update(payload).digest(): the keyed
\* digest is a primitive of the platform.  It is stood for by a digest of two
\* bytes that has what the callers rely on: it is a function of the secret
\* and the payload, and no two of the inputs considered here collide.
HmacDigest(secret, payload) ==
  LET v == ((StringNumber(payload) * 16 + StringNumber(secret)) * 40503 + 12345)
             % 65536 IN
  <<v \div 256, v % 256>>

\* digest('hex'): two lower-case hex digits per byte
RECURSIVE HexEncode(_)
HexEncode(bytes) ==
  IF bytes = <<>> THEN <<>>
  ELSE <<HexDigits[(Head(bytes) \div 16) + 1], HexDigits[(Head(bytes) % 16) + 1]>>
       \o HexEncode(Tail(bytes))

createSignature(payload, secret) == HexEncode(HmacDigest(secret, payload))

\* variant that compares the lengths only: C20 does not survive it
timingSafeEqual_LengthOnly(a, b) ==
  IF Len(a) # Len(b) THEN "RangeError" ELSE "true"

\* crypto.timingSafeEqual: throws for buffers of different lengths, otherwise
\* tells whether all bytes are equal
timingSafeEqual(a, b) ==
  IF Len(a) # Len(b) THEN "RangeError"
  ELSE IF \A k \in 1..Len(a) : a[k] = b[k] THEN "true" ELSE "false"

\* what the promise of verifyWebhookSignature settles with
verifyWebhookSignature(payload, signature, secret) ==
  timingSafeEqual(BufferFrom(signature), BufferFrom(createSignature(payload, secret)))

\* the sender signs a payload with the secret of the webhook
SignPayload(payload, secret) ==
  /\ sig.pc \in {"idle", "verified"}
  /\ sig' = [NoSig EXCEPT !.pc = "signed", !.payload = payload, !.secret = secret,
                          !.signature = createSignature(payload, secret)]
  /\ UNCHANGED <<svars, webhooks, deliveries, fanouts, tasks, wtimers, retryQueue,
                 posts, delays, manual, stale, test, down, emitted, listing, classified>>

\* one byte of the payload is changed on the way
TamperPayload(k, c) ==
  /\ sig.pc = "signed" /\ sig.tampered = "none"
  /\ k \in 1..Len(sig.payload) /\ c # sig.payload[k]
  /\ sig' = [sig EXCEPT !.payload[k] = c, !.tampered = "payload"]
  /\ UNCHANGED <<svars, webhooks, deliveries, fanouts, tasks, wtimers, retryQueue,
                 posts, delays, manual, stale, test, down, emitted, listing, classified>>

\* one byte of the signature is changed on the way
TamperSignature(k, c) ==
  /\ sig.pc = "signed" /\ sig.tampered = "none"
  /\ k \in 1..Len(sig.signature) /\ c # sig.signature[k]
  /\ sig' = [sig EXCEPT !.signature[k] = c, !.tampered = "signature"]
  /\ UNCHANGED <<svars, webhooks, deliveries, fanouts, tasks, wtimers, retryQueue,
                 posts, delays, manual, stale, test, down, emitted, listing, classified>>

\* the receiver verifies what has arrived
VerifySignature ==
  /\ sig.pc = "signed"
  /\ sig' = [sig EXCEPT !.pc = "verified",
                        !.verdict = verifyWebhookSignature(sig.payload, sig.signature,
                                                           sig.secret)]
  /\ UNCHANGED <<svars, webhooks, deliveries, fanouts, tasks, wtimers, retryQueue,
                 posts, delays, manual, stale, test, down, emitted, listing, classified>>

SignatureNext ==
  \/ \E payload \in Payloads, secret \in Secrets : SignPayload(payload, secret)
  \/ \E k \in 1..Len(sig.payload), c \in PayloadChars : TamperPayload(k, c)
  \/ \E k \in 1..Len(sig.signature), c \in SignatureChars : TamperSignature(k, c)
  \/ VerifySignature

SpecSignature == Init /\ [][SignatureNext]_vars

\* ------------------------------------------------------------------- shutdown
\* WhatsAppService.shutdown up to its await: socket.end() for every live
\* session with a connection (an error of end() is caught and logged), then
\* sessions.clear().  As in deleteSession the close update of end() finds the
\* entry still in the map when it is delivered synchronously.  Nothing here
\* touches the WebhookService: its timers stay as they are.
ShutdownSessions(ss, sync) ==
  [i \in Ids |->
     [(IF EndEmitsClose(ss[i], sync)
       THEN HandlerStartSessions(ss, i, "close", <<>>) ELSE ss)[i]
      EXCEPT !.inMap = FALSE]]

ShutdownSockets(sk, ss) ==
  [k \in SockIds |->
     IF \E i \in Ids : EndsSocket(ss[i]) /\ ss[i].socket = k
     THEN [sk[k] EXCEPT !.state = "closed"] ELSE sk[k]]

ShutdownHandlers(h, ss, sync) ==
  [p \in HandlerPcs |-> [i \in Ids |->
     IF p = FirstAwait("close") /\ EndEmitsClose(ss[i], sync)
     THEN h[p][i] + 1 ELSE h[p][i]]]

\* SIGTERM or SIGINT: the handler calls whatsAppService.shutdown()
Shutdown(sync) ==
  /\ down = "running"
  /\ down' = "svcDisconnect"
  /\ sessions' = ShutdownSessions(sessions, sync)
  /\ sockets' = ShutdownSockets(sockets, sessions)
  /\ handlers' = ShutdownHandlers(handlers, sessions, sync)
  /\ stale' = wtimers
  /\ notif' = NoNotif /\ lastSend' = NoSend
  /\ UNCHANGED <<db, timers, rinits, calls, evCount>>
  /\ UNCHANGED <<webhooks, deliveries, fanouts, tasks, wtimers, retryQueue, posts,
                 delays, manual, test, sig, emitted, listing, classified>>

\* dbService.disconnect() has completed: shutdown() returns and the signal
\* handler awaits databaseService.disconnect()
ShutdownReturns ==
  /\ down = "svcDisconnect"
  /\ down' = "appDisconnect"
  /\ notif' = NoNotif /\ lastSend' = NoSend
  /\ UNCHANGED <<sessions, db, sockets, timers, handlers, rinits, calls, evCount>>
  /\ UNCHANGED <<webhooks, deliveries, fanouts, tasks, wtimers, retryQueue, posts,
                 delays, manual, stale, test, sig, emitted, listing, classified>>

\* the second disconnect has completed: the handler calls server.close, whose
\* callback will end the process
SignalHandlerCloses ==
  /\ down = "appDisconnect"
  /\ down' = "closing"
  /\ notif' = NoNotif /\ lastSend' = NoSend
  /\ UNCHANGED <<sessions, db, sockets, timers, handlers, rinits, calls, evCount>>
  /\ UNCHANGED <<webhooks, deliveries, fanouts, tasks, wtimers, retryQueue, posts,
                 delays, manual, stale, test, sig, emitted, listing, classified>>

\* sessions are created, their events are delivered to the webhooks, and the
\* process is told to stop
ShutdownNext ==
  \/ \E r \in 1..MaxCalls, i \in Ids, p \in BOOLEAN : RoutePostSession(r, i, p)
  \/ \E r \in 1..MaxCalls : CreateSessionInsert(r)
  \/ \E r \in 1..MaxCalls, ok \in BOOLEAN, reg \in BOOLEAN : CreateSessionInit(r, ok, reg)
  \/ \E r \in 1..MaxCalls, dbOk \in BOOLEAN : CreateSessionPairDb(r, dbOk)
  \/ \E r \in 1..MaxCalls, dbOk \in BOOLEAN : CreateSessionErrDb(r, dbOk)
  \/ \E pc \in HandlerPcs, i \in Ids, dbOk \in BOOLEAN : HandlerPersisted(pc, i, dbOk)
  \/ \E i \in Ids : ReconnectTimerFires(i)
  \/ \E i \in Ids, ok \in BOOLEAN : ReconnectInit(i, ok)
  \/ ChainNext(MaxOccs)
  \/ \E sync \in BOOLEAN : Shutdown(sync)
  \/ ShutdownReturns
  \/ SignalHandlerCloses

SpecShutdown == Init /\ [][ShutdownNext]_vars

\* ============================================================ session claims
LiveStatus(i) == IF sessions[i].inMap THEN sessions[i].status ELSE "ABSENT"

CreateDone(r) == calls[r].op = "create" /\ calls[r].pc = "done"

\* C1: two createSession calls for the same id with no delete in between end
\* with exactly one success and one 'Session already exists' (stated for the
\* calls in which connection initialisation does not fail)
C1_ExactlyOneCreateSucceeds ==
  \A r1, r2 \in 1..MaxCalls :
    ( /\ r1 < r2
      /\ CreateDone(r1) /\ CreateDone(r2)
      /\ calls[r1].id = calls[r2].id
      /\ \A d \in 1..MaxCalls : ~(calls[d].op = "delete" /\ calls[d].id = calls[r1].id)
      /\ calls[r1].result # "InitError" /\ calls[r2].result # "InitError" )
    => {calls[r1].result, calls[r2].result} = {"ok", "AlreadyExists"}

\* C4: once deleteSession(id) has returned, the status of id changes neither in
\* the live map nor in the durable record, and no sessionUpdate is published
C4_NoTransitionAfterDelete ==
  [][\A i \in Ids : Deleted(i) =>
        /\ LiveStatus(i)' = LiveStatus(i)
        /\ db'[i].status = db[i].status
        /\ notif'.id # i]_vars

\* C5: once deleteSession(id) has returned, no reconnect runs for id: the timer
\* starts no connection initialisation and no connection is opened by one
C5_NoReconnectAfterDelete ==
  [][\A i \in Ids : Deleted(i) =>
        /\ rinits'["auth"][i] <= rinits["auth"][i]
        /\ ~( /\ rinits'["auth"][i] < rinits["auth"][i]
              /\ \E k \in SockIds : sockets[k].state = "none"
                                    /\ sockets'[k].state = "open" )]_vars

StaysLive(i) == sessions[i].inMap /\ sessions'[i].inMap

C9_SendOnlyWhenConnected ==
  lastSend.id # "none" =>
    /\ lastSend.forwardedTo # NoSock
         => lastSend.status = "CONNECTED" /\ lastSend.forwardedTo = lastSend.socket
    /\ (lastSend.status # "CONNECTED" \/ lastSend.socket = NoSock)
         => lastSend.result = "NotConnected" /\ lastSend.forwardedTo = NoSock

\* sendMessage was refused for a live session that has a client but is not
\* connected
C9_Witness ==
  /\ lastSend.result = "NotConnected"
  /\ lastSend.socket # NoSock
  /\ lastSend.status \in Statuses \ {"CONNECTED"}

\* C10: a deleteSession call for an id that is not live (already deleted or
\* never created) completes without error
C10_DeleteNotLiveSucceeds ==
  \A r \in 1..MaxCalls :
    (calls[r].op = "delete" /\ calls[r].pc = "done" /\ ~calls[r].live)
      => calls[r].result = "ok"

\* ============================================================ webhook claims
Records(w, o) == {k \in 1..Len(deliveries[w]) : deliveries[w][k].occ = o}

\* no attempt of (w, o) is running and none is scheduled
ChainAtRest(w, o) ==
  /\ tasks[w][o].pc = "none"
  /\ fanouts[o].pc = "done"
  /\ [w |-> w, o |-> o] \notin wtimers

\* o is the only occurrence that has reached w, and every attempt of it so far
\* has failed
OnlyFailures(w, o) ==
  /\ posts[w][o] # <<>>
  /\ \A k \in 1..Len(posts[w][o]) : posts[w][o][k] = "5xx"
  /\ \A p \in Occs \ {o} : tasks[w][p].pc = "none" /\ Records(w, p) = {}

BackoffDelays == <<1000, 2000, 4000>>

\* C2: with maxRetries = 3, a counter of 0 and an endpoint that always fails,
\* one event is attempted exactly 4 times, the retries are scheduled after
\* 1 s, 2 s and 4 s, then the delivery is FAILED and nothing more is scheduled
C2_FourAttemptsThenFailed ==
  \A o \in Occs : OnlyFailures("w1", o) =>
    /\ Len(posts["w1"][o]) <= 4
    /\ Len(delays["w1"][o]) <= 3
    /\ delays["w1"][o] = SubSeq(BackoffDelays, 1, Len(delays["w1"][o]))
    /\ tasks["w1"][o].pc = "none" =>
         /\ Len(delays["w1"][o]) = Len(posts["w1"][o]) - (IF Len(posts["w1"][o]) = 4 THEN 1 ELSE 0)
         /\ ([w |-> "w1", o |-> o] \in wtimers) = (Len(posts["w1"][o]) < 4)
         /\ Len(posts["w1"][o]) = 4 =>
              deliveries["w1"][Len(deliveries["w1"])].status = "FAILED"

\* the fourth attempt has failed, its record is FAILED and nothing is scheduled
C2_Witness ==
  \E o \in Occs :
    /\ OnlyFailures("w1", o)
    /\ ChainAtRest("w1", o)
    /\ Len(posts["w1"][o]) = 4
    /\ delays["w1"][o] = BackoffDelays
    /\ deliveries["w1"][Len(deliveries["w1"])].status = "FAILED"

\* C3: the step that completes a successful attempt leaves the webhook's
\* failure counter at zero and the delivery record SUCCESS
C3_SuccessResetsCounter ==
  [][\A w \in Webhooks, o \in Occs :
        ( /\ tasks[w][o].pc = "updStatus"
          /\ tasks[w][o].outcome = "2xx"
          /\ tasks'[w][o].pc # "updStatus" )
        => /\ deliveries'[w][tasks[w][o].rec].status = "SUCCESS"
           /\ webhooks'[w].retries = 0]_vars

\* C7: a webhook has at most one PENDING or RETRYING delivery record per event
\* occurrence
C7_OneOpenRecordPerOccurrence ==
  \A w \in Webhooks, o \in Occs :
    Cardinality({k \in Records(w, o) :
                   deliveries[w][k].status \in {"PENDING", "RETRYING"}}) <= 1

\* the session's owner owns w, w is active and subscribed to the event type
Matches(w, o) ==
  /\ db[fanouts[o].sid].exists
  /\ WebhookConfig[w].userId = db[fanouts[o].sid].userId
  /\ webhooks[w].isActive
  /\ \/ fanouts[o].event \in WebhookConfig[w].events
     \/ "*" \in WebhookConfig[w].events

\* C8: an event creates a delivery record and an HTTP attempt for a webhook
\* exactly if the webhook is active, owned by the session's owner and
\* subscribed to the event type or to '*'
C8_FanOutExactlyToMatching ==
  \A w \in Webhooks, o \in Occs :
    /\ (Records(w, o) # {} \/ posts[w][o] # <<>> \/ tasks[w][o].pc # "none")
         => Matches(w, o)
    /\ (fanouts[o].pc = "done" /\ Matches(w, o))
         => (Records(w, o) # {} /\ posts[w][o] # <<>>)

\* an event of the second user has reached both of that user's webhooks, by
\* the event type and by the wildcard, and neither of the first user's
C8_Witness ==
  \E o \in Occs :
    /\ fanouts[o].pc = "done"
    /\ fanouts[o].sid = "s2"
    /\ fanouts[o].event = "message.received"
    /\ posts["w2"][o] # <<>> /\ posts["w3"][o] # <<>>
    /\ posts["w1"][o] = <<>> /\ posts["w4"][o] = <<>>

\* ------------------------------------------------------------------------ C11
\* C11: a deleteSession call for a live id returns without an error, with the
\* entry removed from the live map and the durable record inactive, also when
\* closing the connection raises an error
C11_DeleteSurvivesEndError ==
  [][\A r \in 1..MaxCalls :
       (/\ calls[r].pc # "done" /\ calls'[r].pc = "done"
        /\ calls'[r].op = "delete" /\ calls'[r].live)
       => /\ calls'[r].result = "ok"
          /\ ~sessions'[calls'[r].id].inMap
          /\ ~db'[calls'[r].id].isActive]_vars

\* ------------------------------------------------------------------------ C12
\* C12: requestPairingCode fails with NotFound, before any call of the client,
\* exactly when the id has no live entry or the entry has no client; a call
\* that fails (NotFound, or the client rejecting) changes no session, persists
\* nothing and publishes no notification
C12_PairingFailureChangesNothing ==
  [][\A r \in 1..MaxCalls :
       /\ (calls[r].pc = "idle" /\ calls'[r].op = "pairing")
          => LET s == sessions[calls'[r].id] IN
             /\ (calls'[r].pc = "done" /\ calls'[r].result = "NotFound")
                  <=> ~(s.inMap /\ s.socket # NoSock)
             /\ calls'[r].pc = "pairCode" <=> (s.inMap /\ s.socket # NoSock)
       /\ (/\ calls[r].pc # "done" /\ calls'[r].pc = "done"
           /\ calls'[r].op = "pairing"
           /\ calls'[r].result \in {"NotFound", "Rejected"})
          => /\ sessions' = sessions
             /\ db' = db
             /\ notif' = NoNotif
       /\ (calls'[r].op = "pairing" /\ calls'[r].result = "NotFound")
          => calls[r].pc \in {"idle", "done"}]_vars

\* a call rejected by the client has returned: the session is live and has
\* no code
C12_Witness ==
  \E r \in 1..MaxCalls :
    /\ calls[r].op = "pairing" /\ calls[r].result = "Rejected"
    /\ sessions[calls[r].id].inMap /\ ~sessions[calls[r].id].pairingCode
    /\ ~db[calls[r].id].pairingCode

\* ------------------------------------------------------------------------ C17
\* C17: a restart of a live session (deleteSession, then createSession with
\* the same id) returns with createSession succeeded and a live entry of the id
C17_RestartEndsLive ==
  [][\A r \in 1..MaxCalls :
       (/\ calls[r].pc # "done" /\ calls'[r].pc = "done"
        /\ calls'[r].op = "restart" /\ calls'[r].live)
       => (calls'[r].result = "ok" /\ sessions'[calls'[r].id].inMap)]_vars

\* ------------------------------------------------------------------------ C18
\* C18: an id enters the live map only by the insertion of a createSession
\* call: no handler, reconnect or other step puts an entry back
C18_OnlyCreateInserts ==
  [][\A i \in Ids :
       (~sessions[i].inMap /\ sessions'[i].inMap)
       => \E r \in 1..MaxCalls :
            /\ calls[r].id = i /\ calls[r].pc = "dbCreate"
            /\ calls'[r].pc = "auth"]_vars

\* deleteSession has returned while a handler of the session is suspended at
\* its encoding or persistence await
C18_Witness ==
  \E i \in Ids, pc \in HandlerPcs : Deleted(i) /\ handlers[pc][i] > 0

\* ------------------------------------------------------------------------ C19
\* C19: on a live session, the handler of a QR update that resumes with the
\* encoded image sets QR_REQUIRED and the qrCode; an open update sets
\* CONNECTED, clears qrCode and pairingCode and stores the phone part of the
\* identity of the connection
C19_QrThenOpen ==
  [][\A i \in Ids :
       /\ (sessions[i].inMap /\ handlers'["qrDb"][i] > handlers["qrDb"][i])
          => (sessions'[i].status = "QR_REQUIRED" /\ sessions'[i].qrCode)
       /\ (handlers'["openDb"][i] > handlers["openDb"][i])
          => /\ sessions[i].inMap
             /\ sessions'[i].status = "CONNECTED"
             /\ ~sessions'[i].qrCode
             /\ ~sessions'[i].pairingCode
             /\ sessions'[i].phoneNumber = Phone]_vars

\* the QR update has been handled and persisted, then the open update has set
\* CONNECTED and the phone number
C19_Witness ==
  \E i \in Ids :
    /\ sessions[i].inMap /\ sessions[i].status = "CONNECTED"
    /\ ~sessions[i].qrCode /\ sessions[i].phoneNumber = Phone
    /\ db[i].status = "QR_REQUIRED" /\ db[i].qrCode
    /\ handlers["openDb"][i] > 0

\* ------------------------------------------------------------------------ C13
\* C13: a manual retry for a webhook that has deliveries marked FAILED
\* because the counter reached maxRetries attempts such a delivery again and
\* counts it as retried
C13_ManualRetryAttempts ==
  (/\ manual.pc = "done" /\ manual.failed
   /\ \A o \in Occs : \A k \in 1..Len(posts[manual.w][o]) :
         posts[manual.w][o][k] = "5xx")
  => manual.retried >= 1

\* ------------------------------------------------------------------------ C14
\* C14: a retry timer that was pending when cleanup() ran does not fire
\* afterwards
C14_NoRetryAfterCleanup ==
  [][\A t \in stale : t \in wtimers => t \in wtimers']_vars

\* ------------------------------------------------------------------------ C16
\* C16: the steps of a testWebhook call leave the failure counters, the
\* delivery records and the retry timers as they are; the call makes one HTTP
\* attempt for a webhook of the table and none for an unknown id, and returns
\* true exactly when the answer is a 2xx
C16_TestWebhookOneAttempt ==
  [][(test' # test)
     => /\ webhooks' = webhooks
        /\ deliveries' = deliveries
        /\ wtimers' = wtimers
        /\ retryQueue' = retryQueue
        /\ test'.pc = "done"
           => /\ test'.result <=> (test'.outcome = "2xx")
              /\ test'.attempts = IF test'.id \in Webhooks THEN 1 ELSE 0
              /\ test'.id \notin Webhooks => ~test'.result]_vars

\* a test of w1 has failed on a 5xx while a retry of a delivery to w1 is
\* pending: the counter is the one of the delivery
C16_Witness ==
  /\ test.pc = "done" /\ test.id = "w1" /\ test.outcome = "5xx" /\ ~test.result
  /\ \E t \in wtimers : t.w = "w1"
  /\ webhooks["w1"].retries = 1

\* ------------------------------------------------------------------------ C15
\* C15: shutdown() closes the connection of every live session, and when the
\* signal handler has finished with it no webhook retry timer that was
\* pending at the signal is pending any more
C15_ShutdownClosesAndCancels ==
  [][/\ (down = "running" /\ down' # "running")
        => \A i \in Ids :
             (sessions[i].inMap /\ sessions[i].socket # NoSock)
             => sockets'[sessions[i].socket].state # "open"
     /\ (down # "closing" /\ down' = "closing")
        => stale' \cap wtimers' = {}]_vars

C21_EphemeralOnlyWhileRequired ==
  \A i \in Ids : sessions[i].inMap =>
    /\ sessions[i].qrCode => sessions[i].status = "QR_REQUIRED"
    /\ sessions[i].pairingCode => sessions[i].status = "PAIRING_REQUIRED"

\* ------------------------------------------------------------------------ C22
\* C22: the handler of a close update of a live session sets DISCONNECTED and
\* schedules nothing when the reason is a logout; otherwise it sets CONNECTING
\* and, when its durable write has completed, schedules exactly one reconnect;
\* connection initialisation is started by the firing of that timer only
C22_CloseSchedulesOneReconnect ==
  [][\A i \in Ids :
       /\ handlers'["logoutDb"][i] > handlers["logoutDb"][i]
          => /\ sessions[i].inMap
             /\ sessions'[i].status = "DISCONNECTED"
             /\ timers' = timers /\ rinits' = rinits
       /\ handlers'["closeDb"][i] > handlers["closeDb"][i]
          => /\ sessions[i].inMap
             /\ sessions'[i].status = "CONNECTING"
             /\ timers' = timers /\ rinits' = rinits
       /\ handlers'["logoutDb"][i] < handlers["logoutDb"][i]
          => timers' = timers /\ rinits' = rinits
       /\ handlers'["closeDb"][i] < handlers["closeDb"][i]
          => timers'[i] = timers[i] + 1 /\ rinits' = rinits
       /\ timers'[i] > timers[i]
          => handlers'["closeDb"][i] = handlers["closeDb"][i] - 1
       /\ rinits'["auth"][i] > rinits["auth"][i]
          => /\ timers'[i] = timers[i] - 1
             /\ rinits'["auth"][i] = rinits["auth"][i] + 1]_vars

\* the reconnect scheduled after a recoverable close of a live session has
\* started, and none is pending
C22_Witness ==
  \E i \in Ids :
    /\ sessions[i].inMap /\ sessions[i].status = "CONNECTING"
    /\ rinits["auth"][i] = 1 /\ timers[i] = 0
    /\ handlers["closeDb"][i] = 0
    /\ \E k \in SockIds : sockets[k].sid = i /\ sockets[k].state = "closed"

\* ------------------------------------------------------------------------ C23
\* C23: while a session that a logout has left DISCONNECTED stays in the live
\* map, its status does not change and no connection initialisation is
\* started for it
C23_DisconnectedIsTerminal ==
  [][\A i \in Ids :
       (StaysLive(i) /\ sessions[i].status = "DISCONNECTED")
       => /\ sessions'[i].status = "DISCONNECTED"
          /\ rinits'["auth"][i] <= rinits["auth"][i]]_vars

\* ------------------------------------------------------------------------ C24
\* nothing can start a reconnect of i: no timer is pending, no initialisation
\* is under way (of a reconnect, or of a createSession call that can still
\* succeed), no handler of a recoverable close is suspended and no connection
\* of i with handlers attached is open
ReconnectsOver(i) ==
  /\ timers[i] = 0
  /\ rinits["auth"][i] = 0
  /\ handlers["closeDb"][i] = 0
  /\ \A k \in SockIds : ~(sockets[k].sid = i /\ sockets[k].state = "open"
                          /\ sockets[k].attached)
  /\ \A r \in 1..MaxCalls :
        ~(calls[r].id = i /\ (calls[r].pc = "auth"
                              \/ (calls[r].pc = "dbCreate" /\ ~db[i].exists)))

\* an initialisation started by the reconnect timer fails
ReconnectFails(i) ==
  rinits'["auth"][i] < rinits["auth"][i] /\ sockets' = sockets

\* C24: when the initialisation of a scheduled reconnect of a live session
\* fails, the status becomes ERROR (and is then persisted and published), and
\* from then on nothing starts a reconnect of the session: no timer is set and
\* no initialisation begins
C24_FailedReconnectStops ==
  [][\A i \in Ids :
       /\ (ReconnectFails(i) /\ sessions[i].inMap)
          => /\ sessions'[i].status = "ERROR"
             /\ rinits'["errDb"][i] = rinits["errDb"][i] + 1
             /\ ReconnectsOver(i)'
       /\ rinits'["errDb"][i] < rinits["errDb"][i]
          => (sessions[i].inMap => notif' = [id |-> i, status |-> sessions[i].status])
       /\ (ReconnectsOver(i) /\ db[i].exists)
          => /\ ReconnectsOver(i)'
             /\ timers' = timers
             /\ rinits'["auth"] = rinits["auth"]]_vars

\* the reconnect after a recoverable close has failed: the live status and the
\* durable status are ERROR and nothing is pending
C24_Witness ==
  \E i \in Ids :
    /\ sessions[i].inMap /\ sessions[i].status = "ERROR"
    /\ db[i].status = "ERROR"
    /\ \E k \in SockIds : sockets[k].sid = i /\ sockets[k].state = "closed"
    /\ rinits["errDb"][i] = 0
    /\ ReconnectsOver(i)

\* ------------------------------------------------------------------------ C25
\* a durable write of status st for session i is under way, to be followed by
\* the notification
WritePending(i, st) ==
  \/ \E pc \in HandlerPcs \ {"qrEncode"} : PersistedStatus(pc) = st /\ handlers[pc][i] > 0
  \/ st = "ERROR" /\ rinits["errDb"][i] > 0
  \/ \E r \in 1..MaxCalls :
        /\ calls[r].id = i
        /\ \/ st = "PAIRING_REQUIRED" /\ calls[r].pc = "pairDb"
           \/ st = "ERROR" /\ calls[r].pc = "errDb"

\* the step is the completion of a durable write of status st for session i
WriteCompletes(i, st) ==
  \/ \E pc \in HandlerPcs \ {"qrEncode"} :
        PersistedStatus(pc) = st /\ handlers'[pc][i] < handlers[pc][i]
  \/ st = "ERROR" /\ rinits'["errDb"][i] < rinits["errDb"][i]
  \/ \E r \in 1..MaxCalls :
        /\ calls[r].id = i /\ calls'[r].pc = "done"
        /\ \/ st = "PAIRING_REQUIRED" /\ calls[r].pc = "pairDb"
           \/ st = "ERROR" /\ calls[r].pc = "errDb"

\* C25: every change of the status of a live session starts a durable write
\* of the new status, and the step that completes the write (whether or not
\* it succeeded) publishes a sessionUpdate that reports the status written
C25_TransitionPersistedAndNotified ==
  [][\A i \in Ids :
       /\ (StaysLive(i) /\ sessions'[i].status # sessions[i].status)
          => \E st \in Statuses : st = sessions'[i].status /\ WritePending(i, st)'
       /\ \A st \in Statuses :
            (sessions[i].inMap /\ WriteCompletes(i, st))
            => /\ db'[i].status = st \/ db' = db
               /\ notif' = [id |-> i, status |-> st]]_vars

\* ------------------------------------------------------------------------ C26
\* no handleConnectionUpdate call of i is suspended
HandlersFinished(i) == \A pc \in HandlerPcs : handlers[pc][i] = 0

\* C26: once all handlers of a live session have finished, its status is the
\* one the update emitted last implies: CONNECTED after an open update,
\* DISCONNECTED after a logout, CONNECTING after a recoverable close (ERROR
\* once the reconnect has failed); after a QR update nothing is asked, as its
\* encoding can fail
C26_LastUpdateDecides ==
  \A i \in Ids :
    (sessions[i].inMap /\ HandlersFinished(i)) =>
      /\ emitted[i] = "open" => sessions[i].status = "CONNECTED"
      /\ emitted[i] = "logout" => sessions[i].status = "DISCONNECTED"
      /\ emitted[i] = "close" => sessions[i].status \in {"CONNECTING", "ERROR"}

\* ------------------------------------------------------------------------ C27
\* no write of the durable record of i is under way or about to be made
WritesFinished(i) ==
  /\ HandlersFinished(i)
  /\ rinits["errDb"][i] = 0
  /\ \A r \in 1..MaxCalls :
       calls[r].id = i => calls[r].pc \notin {"pairDb", "errDb", "pairCode", "pairPersist"}

\* C27: for a live session, once every handler and call that writes the
\* durable record has finished (all writes having succeeded), the record has
\* the status, the qrCode and the pairingCode of the live entry; the status
\* is compared once a status has been written
C27_ShadowEqualsLive ==
  \A i \in Ids :
    (sessions[i].inMap /\ WritesFinished(i)) =>
      /\ db[i].status \in {"DEFAULT", sessions[i].status}
      /\ db[i].qrCode = sessions[i].qrCode
      /\ db[i].pairingCode = sessions[i].pairingCode

\* ------------------------------------------------------------------------ C28
\* C28: an answer of GET /sessions or GET /dashboard/sessions reports, for
\* every session listed that has a live entry, the status of that entry (and
\* GET /sessions its qrCode and pairingCode)
C28_ListsReportLiveStatus ==
  [][(listing' # listing) =>
       \A i \in DOMAIN listing'.entries :
         (i \in Ids /\ sessions[i].inMap) =>
           IF listing'.route = "list"
           THEN /\ listing'.entries[i].liveStatus = sessions[i].status
                /\ listing'.entries[i].qrCode = sessions[i].qrCode
                /\ listing'.entries[i].pairingCode = sessions[i].pairingCode
           ELSE listing'.entries[i].status = sessions[i].status]_vars

\* ------------------------------------------------------------------------ C29
\* C29: once deleteSession(id) has returned, no step acts upon an event of
\* id: no handler of a message starts, no message that was saved is published
\* and handed to sendWebhook, no delivery record is created for an event of
\* id, and no sessionUpdate is published
C29_NoEventAfterDelete ==
  [][\A i \in Ids : Deleted(i) =>
       /\ notif'.id # i
       /\ \A o \in Occs :
            /\ (fanouts[o].pc = "idle" /\ fanouts'[o].pc # "idle") => fanouts'[o].sid # i
            /\ fanouts[o].sid = i
               => /\ ~(fanouts[o].pc = "save" /\ fanouts'[o].pc = "session")
                  /\ \A w \in Webhooks :
                       Len(deliveries'[w]) > Len(deliveries[w])
                       => deliveries'[w][Len(deliveries'[w])].occ # o]_vars

\* ------------------------------------------------------------------------ C30
\* C30: an attempt answered with a status below 500 goes to
\* updateDeliveryStatus, which marks the record SUCCESS for a 2xx and FAILED
\* otherwise, counts the attempt and touches neither the failure counter nor
\* the retry timers; an attempt answered with 500 or above, timed out or
\* failed in transport goes to handleWebhookError, which increments the
\* counter and then evaluates the retry; the counter and the timers are
\* changed by no other attempt
C30_OutcomeOfAttempt ==
  [][\A w \in Webhooks :
       /\ \A o \in Occs :
            LET t == tasks[w][o] IN
            /\ (t.pc = "post" /\ tasks'[w][o].pc # "post")
               => /\ tasks'[w][o].outcome \in {"2xx", "4xx"} <=> tasks'[w][o].pc = "updStatus"
                  /\ tasks'[w][o].outcome = "5xx" <=> tasks'[w][o].pc = "findWebhook"
                  /\ webhooks' = webhooks /\ wtimers' = wtimers /\ deliveries' = deliveries
            /\ (t.pc = "updStatus" /\ tasks'[w][o].pc # "updStatus")
               => /\ t.outcome = "2xx" => deliveries'[w][t.rec].status = "SUCCESS"
                  /\ t.outcome = "4xx" => deliveries'[w][t.rec].status = "FAILED"
                  /\ deliveries'[w][t.rec].attempts = deliveries[w][t.rec].attempts + 1
                  /\ webhooks' = webhooks /\ wtimers' = wtimers /\ retryQueue' = retryQueue
            /\ (t.pc = "findWebhook" /\ tasks'[w][o].pc # "findWebhook")
               => tasks'[w][o].pc = "incr" /\ webhooks' = webhooks
            /\ (t.pc = "incr" /\ tasks'[w][o].pc # "incr")
               => /\ webhooks'[w].retries = webhooks[w].retries + 1
                  /\ tasks'[w][o].pc \in {"findRetry", "findFail"}
       /\ (webhooks'[w] # webhooks[w] \/ \E x \in wtimers' \ wtimers : x.w = w)
          => \E o \in Occs : tasks[w][o].pc = "incr" /\ tasks[w][o].outcome = "5xx"]_vars

\* an attempt to w1 was answered with a 4xx: its record is FAILED after one
\* attempt, the counter is 0 and no retry is scheduled
C30_Witness ==
  \E o \in Occs :
    /\ posts["w1"][o] = <<"4xx">>
    /\ ChainAtRest("w1", o)
    /\ deliveries["w1"] # <<>>
    /\ deliveries["w1"][1].status = "FAILED" /\ deliveries["w1"][1].attempts = 1
    /\ webhooks["w1"].retries = 0
    /\ wtimers = {}

\* ------------------------------------------------------------------------ C39
\* r is the only createSession call made for its id, and it has raised the
\* error of the initialisation to its caller
OnlyCreateFailed(r) ==
  /\ calls[r].op = "create"
  /\ calls[r].pc = "done"
  /\ calls[r].result = "InitError"
  /\ \A q \in 1..MaxCalls \ {r} : calls[q].op # "create"

\* C39: after a createSession call that failed, its id is registered neither
\* in the live map nor in the durable store
C39_FailedCreateRegistersNothing ==
  \A r \in 1..MaxCalls :
    OnlyCreateFailed(r) =>
      /\ ~sessions[calls[r].id].inMap
      /\ ~db[calls[r].id].exists

\* ------------------------------------------------------------------------ C37
\* the connections of session i that are open with the handlers attached
OpenConnections(i) ==
  {k \in SockIds : sockets[k].sid = i /\ sockets[k].state = "open" /\ sockets[k].attached}

\* C37: a live session has at most one open connection with handlers attached
\* and at most one reconnect pending (its timer set, or its initialisation
\* under way), and no reconnect is pending while such a connection is open
C37_OneConnectionOneTimer ==
  \A i \in Ids :
    sessions[i].inMap =>
      /\ Cardinality(OpenConnections(i)) <= 1
      /\ timers[i] <= 1
      /\ Cardinality(OpenConnections(i)) + timers[i] + rinits["auth"][i] <= 1

\* a reconnect has replaced a connection that had closed, and the connection
\* it opened has closed in turn: one reconnect is pending
C37_Witness ==
  \E i \in Ids :
    /\ sessions[i].inMap
    /\ timers[i] = 1
    /\ Cardinality({k \in SockIds : sockets[k].sid = i /\ sockets[k].state = "closed"}) = 2

\* ------------------------------------------------------------------------ C36
\* the message types in the order of precedence of the fields they stand for
TypeOfField ==
  [f \in FieldNames |->
     CASE f = "conversation" -> "TEXT"
       [] f = "extendedTextMessage" -> "TEXT"
       [] f = "imageMessage" -> "IMAGE"
       [] f = "videoMessage" -> "VIDEO"
       [] f = "audioMessage" -> "AUDIO"
       [] f = "documentMessage" -> "DOCUMENT"
       [] f = "stickerMessage" -> "STICKER"
       [] f = "locationMessage" -> "LOCATION"
       [] f = "contactMessage" -> "CONTACT"
       [] f = "pollCreationMessage" -> "POLL"
       [] f = "reactionMessage" -> "REACTION"]

\* the positions, in the order of precedence, of the fields that hold content
WithContent(message) ==
  {j \in 1..Len(MessageFields) :
     message.given /\ message.fields[MessageFields[j]] = "set"}

\* C36: the type of a message is that of the first field, in the fixed order
\* of precedence, that holds content (TEXT for conversation and extended
\* text), and TEXT when no field does or the payload is absent
C36_TypeByPrecedence ==
  classified.pc = "typed" =>
    LET P == WithContent(classified.message) IN
    IF P = {} THEN classified.type = "TEXT"
    ELSE \E j \in P : /\ \A k \in P : j <= k
                       /\ classified.type = TypeOfField[MessageFields[j]]

\* a message with both an image and a video, and no text, was typed IMAGE
C36_Witness ==
  /\ classified.pc = "typed"
  /\ classified.message.given
  /\ classified.message.fields["imageMessage"] = "set"
  /\ classified.message.fields["videoMessage"] = "set"
  /\ classified.message.fields["conversation"] # "set"
  /\ classified.message.fields["extendedTextMessage"] = "absent"
  /\ classified.type = "IMAGE"

\* ------------------------------------------------------------------------ C35
\* the HTTP attempts made for record k of webhook w: every deliverWebhook call
\* creates a record and then posts once, so the records of an occurrence and
\* its attempts correspond in order
AttemptsMade(w, k) ==
  LET o == deliveries[w][k].occ
      nth == Cardinality({j \in Records(w, o) : j <= k}) IN
  IF nth <= Len(posts[w][o]) THEN 1 ELSE 0

\* no deliverWebhook call for w is under way
NoTaskRuns(w) == \A o \in Occs : tasks[w][o].pc = "none"

\* C35: when no attempt is being recorded, the attempts field of every
\* delivery record equals the number of HTTP attempts made for it
C35_AttemptsCountsAttempts ==
  \A w \in Webhooks :
    NoTaskRuns(w) =>
      \A k \in 1..Len(deliveries[w]) :
        deliveries[w][k].attempts = AttemptsMade(w, k)

\* ------------------------------------------------------------------------ C38
\* C38: once the attempt chain of an event and a webhook has ended, every
\* delivery record it created is SUCCESS or FAILED
C38_RecordsEndTerminal ==
  \A w \in Webhooks, o \in Occs :
    ChainAtRest(w, o) =>
      \A k \in Records(w, o) : deliveries[w][k].status \in {"SUCCESS", "FAILED"}

\* ------------------------------------------------------------------------ C34
\* C34: for every event and webhook at most maxRetries + 1 HTTP attempts are
\* made, and at most maxRetries retries are scheduled, however the chains of
\* several events interleave
C34_AttemptsBounded ==
  \A w \in Webhooks, o \in Occs :
    /\ Len(posts[w][o]) <= WebhookConfig[w].maxRetries + 1
    /\ Len(delays[w][o]) <= WebhookConfig[w].maxRetries
    /\ Len(posts[w][o]) + (IF [w |-> w, o |-> o] \in wtimers THEN 1 ELSE 0)
         <= WebhookConfig[w].maxRetries + 1

\* every chain of attempts ends: from some point on no deliverWebhook call is
\* under way and no retry is scheduled
C34_ChainsTerminate ==
  <>[](wtimers = {} /\ \A w \in Webhooks, o \in Occs : tasks[w][o].pc = "none")

\* two events have failed side by side at the webhook with maxRetries = 1: each
\* was attempted twice, and the counter of the webhook stands at four
C34_Witness ==
  /\ \A o \in 1..2 : Len(posts["w4"][o]) = 2 /\ ChainAtRest("w4", o)
  /\ webhooks["w4"].retries = 4

\* ------------------------------------------------------------------------ C33
\* C33: a request of a user who does not own the webhook leaves the webhook as
\* it is and sends nothing to its URL
C33_OnlyOwnerDeactivatesOrTests ==
  [][/\ \A u \in Users, w \in Webhooks :
          (RouteDeleteWebhook(u, w) /\ WebhookConfig[w].userId # u)
            => webhooks' = webhooks
     /\ test'.attempts > test.attempts
          => WebhookConfig[test.id].userId = test.by]_vars

\* ------------------------------------------------------------------------ C40
\* C40: the POST of a delivery attempt is sent only to a webhook that is
\* active: none is sent after the webhook has been deactivated
C40_NoAttemptAfterDeactivation ==
  [][\A w \in Webhooks, o \in Occs :
        (tasks[w][o].pc = "create" /\ tasks'[w][o].pc = "post")
          => webhooks[w].isActive]_vars

\* ------------------------------------------------------------------------ C31
\* the step in which saveMessage of message o fails
SaveFails(o) ==
  fanouts[o].pc = "save" /\ fanouts'[o].pc \notin {"save", "session"}

\* the step in which a deliverWebhook call of sendWebhook for message o
\* returns after its POST has thrown
DeliveryFails(o) ==
  \E w \in Webhooks :
    /\ tasks[w][o].src = "fanout"
    /\ PostThrows(tasks[w][o].outcome)
    /\ tasks'[w][o].pc = "none"

\* C31: a failed saveMessage and a failed delivery attempt end inside the
\* handler: the handling of the message goes on or ends in the regular way,
\* the next message of the batch is taken up when it ends, no message is left
\* waiting behind a message whose handling has stopped, and the handling of
\* the other messages and their deliveries stays as it is
C31_FailuresStayInHandler ==
  [][\A o \in Occs :
       /\ fanouts'[o].pc \in {"idle", "queued", "save", "session", "webhooks",
                              "deliver", "done"}
       /\ fanouts'[o].pc = "queued"
            => o > 1 /\ fanouts'[o - 1].pc \in {"queued", "save", "session",
                                                 "webhooks", "deliver"}
       /\ (SaveFails(o) \/ DeliveryFails(o))
            => /\ fanouts'[o].pc \in {"deliver", "done"}
               /\ (o + 1 \in Occs /\ fanouts[o + 1].pc = "queued"
                     /\ fanouts'[o].pc = "done")
                    => fanouts'[o + 1].pc = "save"
               /\ \A p \in Occs \ {o, o + 1} : fanouts'[p] = fanouts[p]
               /\ \A w \in Webhooks, p \in Occs \ {o} : tasks'[w][p] = tasks[w][p]]_vars

\* the POST of the first message of a batch of session s2 has failed at w2,
\* and the second message of the batch has been saved and delivered to w2 and
\* w3 all the same
C31_Witness ==
  /\ fanouts[1].sid = "s2" /\ fanouts[2].sid = "s2"
  /\ posts["w2"][1] = <<"5xx">>
  /\ fanouts[2].pc = "done"
  /\ posts["w2"][2] # <<>> /\ posts["w3"][2] # <<>>

\* ------------------------------------------------------------------------ C32
\* C32: while a POST of message o is awaited, the message that waits behind it
\* in the batch can be taken up, and the deliverWebhook call for the next
\* relevant webhook can start, without any POST being answered first
C32_DeliveryDoesNotBlock ==
  \A o \in Occs :
    /\ (o + 1 \in Occs /\ fanouts[o + 1].pc = "queued"
          /\ \E w \in Webhooks : tasks[w][o].pc = "post")
         => ENABLED (BatchNext /\ posts' = posts /\ fanouts'[o + 1].pc # "queued")
    /\ (fanouts[o].pc = "deliver" /\ Len(fanouts[o].queue) > 1
          /\ tasks[fanouts[o].queue[1]][o].pc = "post")
         => ENABLED (BatchNext /\ posts' = posts
                      /\ tasks'[fanouts[o].queue[2]][o].pc # "none")
====
